---- MODULE Spec2Model ----
(***************************************************************************)
(* Monte Carlo Tree Search (src/mcts.py) over the tic-tac-toe game of      *)
(* src/games/tictactoe.py, scored by src/utils/scoring.py.                 *)
(*                                                                         *)
(* Python objects are modelled by value plus an identity tag where the     *)
(* code compares by identity: a Player carries the tag `obj` of the game   *)
(* copy that owns it, because Player defines no __eq__ and deepcopy makes  *)
(* fresh Player objects.  Floats are fixed-point integers in units of      *)
(* 1/ScoreScale.                                                           *)
(***************************************************************************)
EXTENDS Integers, Sequences, FiniteSets, TLC

(***************************************************************************)
(* Bounds of the model                                                     *)
(***************************************************************************)
\* largest number of plays handed to a scoring function called on its own
MaxArg == 3
\* total number of search iterations over the life of one engine
MaxIter == 3
\* largest n_simulations / n_plays argument
MaxSims == 2
\* largest number of nodes built through direct expand calls
MaxNodes == 4
\* most empty cells of a position a rollout is explored from
MaxRollout == 3
MaxMoves == 3
\* largest random draw of a ucb1 call made by select, in units of 1/ScoreScale
MaxDraw == 1

(***************************************************************************)
(* Generic helpers                                                         *)
(***************************************************************************)
Max(a, b) == IF a >= b THEN a ELSE b

Min(a, b) == IF a <= b THEN a ELSE b

Range(s) == {s[k] : k \in 1..Len(s)}

\* Python None for a move, a node and a player
NoPlay == <<>>

NoNode == <<>>

NoPlayer == [name |-> "None", value |-> 0, display |-> ".", obj |-> <<>>]

(***************************************************************************)
(* src/games/tictactoe.py                                                  *)
(***************************************************************************)
\* Player(name, value, display); obj is the identity of the Python object
Player(name, value, display, obj) ==
    [name |-> name, value |-> value, display |-> display, obj |-> obj]

\* Player has no __eq__: == is object identity
PlayerEq(p, q) == p = q

\* cells of a board in row-major order, the order of np.argwhere
CellSeq(board_size) ==
    [k \in 1..(board_size * board_size) |->
        <<(k - 1) \div board_size, (k - 1) % board_size>>]

Cells(board_size) == (0..(board_size - 1)) \X (0..(board_size - 1))

\* Game.__init__; obj tags the Player objects this constructor creates
NewGame(board_size, save_history, obj) ==
    LET players == <<Player("A", 1, "O", obj), Player("B", -1, "X", obj)>>
        state == [m \in Cells(board_size) |-> 0]
    IN [board_size |-> board_size,
        state |-> state,
        save_history |-> save_history,
        history |-> <<state>>,
        last_play |-> NoPlay,
        sums |-> <<>>,
        players |-> players,
        players_values |-> [k \in 1..2 |-> players[k].value],
        \* cycle(players) after one next(): position of the item next() yields
        players_gen |-> 2,
        current_player |-> players[1]]

\* Game.winner
Winner(game) ==
    LET wins(k) == (game.board_size * game.players[k].value) \in Range(game.sums)
    IN IF wins(1) THEN game.players[1]
       ELSE IF wins(2) THEN game.players[2]
       ELSE NoPlayer

\* slip: the free cells are returned whether or not the game is won
LegalPlaysOfBoard(game) ==
    SelectSeq(CellSeq(game.board_size),
              LAMBDA m : game.state[m] \notin Range(game.players_values))

\* Game.legal_plays
LegalPlays(game) ==
    IF Winner(game) = NoPlayer
    THEN SelectSeq(CellSeq(game.board_size),
                   LAMBDA m : game.state[m] \notin Range(game.players_values))
    ELSE <<>>

\* slip: the diagonal is summed twice, the anti-diagonal never
SumsOfOneDiagonal(state, board_size) ==
    LET idx == 0..(board_size - 1)
        RECURSIVE Tot(_, _)
        Tot(f, k) == IF k < 0 THEN 0 ELSE f[k] + Tot(f, k - 1)
        col(c) == Tot([r \in idx |-> state[<<r, c>>]], board_size - 1)
        row(r) == Tot([c \in idx |-> state[<<r, c>>]], board_size - 1)
        diag == Tot([k \in idx |-> state[<<k, k>>]], board_size - 1)
    IN [k \in 1..board_size |-> col(k - 1)]
       \o [k \in 1..board_size |-> row(k - 1)]
       \o <<diag, diag>>

\* the sums vector of Game.play: columns, rows, diagonal, anti-diagonal
Sums(state, board_size) ==
    LET idx == 0..(board_size - 1)
        RECURSIVE Tot(_, _)
        Tot(f, k) == IF k < 0 THEN 0 ELSE f[k] + Tot(f, k - 1)
        col(c) == Tot([r \in idx |-> state[<<r, c>>]], board_size - 1)
        row(r) == Tot([c \in idx |-> state[<<r, c>>]], board_size - 1)
        diag == Tot([k \in idx |-> state[<<k, k>>]], board_size - 1)
        anti == Tot([k \in idx |-> state[<<board_size - 1 - k, k>>]], board_size - 1)
    IN [k \in 1..board_size |-> col(k - 1)]
       \o [k \in 1..board_size |-> row(k - 1)]
       \o <<diag, anti>>

\* slip: only the cell is looked at, not whether the game is won
PlayRaisesOnTakenCell(game, move) ==
    \/ move \notin Cells(game.board_size)
    \/ game.state[move] \in Range(game.players_values)

\* Game.play(move) raises ValueError
PlayRaises(game, move) == move \notin Range(LegalPlays(game))

\* slip: the board itself is appended, not a copy of it, so that every entry
\* appended is the one array the plays write to
HistoryOfReferences(game, state) ==
    IF game.save_history
    THEN <<game.history[1]>> \o [k \in 1..Len(game.history) |-> state]
    ELSE <<state>>

\* lines 118-121: the history once the board is `state`
HistoryAfter(game, state) ==
    IF game.save_history THEN Append(game.history, state)
    ELSE <<state>>

\* slip: the turn does not pass to the next player
PlayKeepsTurn(game, move) ==
    LET state == [m \in DOMAIN game.state |->
                    IF m = move THEN game.current_player.value ELSE game.state[m]]
    IN [game EXCEPT
          !.state = state,
          !.history = HistoryAfter(game, state),
          !.last_play = move,
          !.sums = Sums(state, game.board_size)]

\* Game.play(move) for a legal move
Play(game, move) ==
    LET state == [m \in DOMAIN game.state |->
                    IF m = move THEN game.current_player.value ELSE game.state[m]]
    IN [game EXCEPT
          !.state = state,
          !.history = HistoryAfter(game, state),
          !.current_player = game.players[game.players_gen],
          !.players_gen = (game.players_gen % Len(game.players)) + 1,
          !.last_play = move,
          !.sums = Sums(state, game.board_size)]

\* slip: the random play passes the turn and leaves the board as it is
PlayRandomKeepsBoard(game, choice) ==
    [Play(game, LegalPlays(game)[choice + 1]) EXCEPT
        !.state = game.state, !.history = game.history, !.sums = game.sums]

\* Game.play() with move None, for a game that has legal plays; choice is the
\* np.random.choice draw of line 113 (from 0)
PlayRandom(game, choice) == Play(game, LegalPlays(game)[choice + 1])

\* copy.deepcopy(game): equal values, fresh Player objects tagged obj
DeepCopy(game, obj) ==
    LET fresh(p) == [p EXCEPT !.obj = obj]
    IN [game EXCEPT
          !.players = [k \in 1..Len(game.players) |-> fresh(game.players[k])],
          !.current_player = fresh(game.current_player)]

(***************************************************************************)
(* src/mcts/games/core/player.py and game.py, the later revision of the    *)
(* game classes.  A board is a function from its cells to int8 values.     *)
(***************************************************************************)
\* Player.__eq__ of core/player.py: players are equal when their values are
MctsPlayerEq(p, q) == p.value = q.value

\* the players TwoPlayersGame.__init__ creates (line 81)
TwoPlayers ==
    <<Player("player1", 1, "O", <<>>), Player("player2", -1, "X", <<>>)>>

\* the counts np.unique(state, return_counts=True) gives for value v
CountOf(state, v) == Cardinality({m \in DOMAIN state : state[m] = v})

\* slip: a lone first player is accepted however often it has played
GetLastPlayerOfAnyCount(state, players) ==
    LET values == {state[m] : m \in DOMAIN state} \ {0}
        ValueError == [raised |-> "ValueError", player |-> NoPlayer]
    IN IF Cardinality(values) = 0
       THEN [raised |-> "", player |-> NoPlayer]
       ELSE IF Cardinality(values) = 1
       THEN IF values = {players[1].value}
            THEN [raised |-> "", player |-> players[1]]
            ELSE ValueError
       ELSE IF Cardinality(values) = 2
       THEN IF players[1].value \notin values \/ players[2].value \notin values
            THEN ValueError
            ELSE LET counts1 == CountOf(state, players[1].value)
                     counts2 == CountOf(state, players[2].value)
                 IN IF counts1 - counts2 = 1
                    THEN [raised |-> "", player |-> players[1]]
                    ELSE IF counts1 = counts2
                    THEN [raised |-> "", player |-> players[2]]
                    ELSE ValueError
       ELSE ValueError

\* TwoPlayersGame._get_last_player; values.index() of lines 119-120 raises
\* ValueError for a value that is not on the board
GetLastPlayer(state, players) ==
    LET values == {state[m] : m \in DOMAIN state} \ {0}
        ValueError == [raised |-> "ValueError", player |-> NoPlayer]
    IN IF Cardinality(values) = 0
       THEN [raised |-> "", player |-> NoPlayer]
       ELSE IF Cardinality(values) = 1
       THEN IF values = {players[1].value} /\ CountOf(state, players[1].value) = 1
            THEN [raised |-> "", player |-> players[1]]
            ELSE ValueError
       ELSE IF Cardinality(values) = 2
       THEN IF players[1].value \notin values \/ players[2].value \notin values
            THEN ValueError
            ELSE LET counts1 == CountOf(state, players[1].value)
                     counts2 == CountOf(state, players[2].value)
                 IN IF counts1 - counts2 = 1
                    THEN [raised |-> "", player |-> players[1]]
                    ELSE IF counts1 = counts2
                    THEN [raised |-> "", player |-> players[2]]
                    ELSE ValueError
       ELSE ValueError

\* slip: the first player is to move whoever played last
TwoPlayersGameInitFirstToMove(init_state) ==
    LET players == TwoPlayers
        last == GetLastPlayer(init_state, players)
    IN IF last.raised # ""
       THEN [raised |-> last.raised, last_player |-> NoPlayer,
             current_player |-> NoPlayer]
       ELSE [raised |-> "", last_player |-> last.player,
             current_player |-> players[1]]

\* TwoPlayersGame.__init__(init_state) for an init_state that is a board
TwoPlayersGameInit(init_state) ==
    LET players == TwoPlayers
        last == GetLastPlayer(init_state, players)
    IN IF last.raised # ""
       THEN [raised |-> last.raised, last_player |-> NoPlayer,
             current_player |-> NoPlayer]
       ELSE [raised |-> "",
             last_player |-> last.player,
             current_player |->
                 IF last.player = NoPlayer \/ MctsPlayerEq(last.player, players[2])
                 THEN players[1] ELSE players[2]]

\* TicTacToe.__init__(init_state, save_history) of
\* src/mcts/games/tictactoe.py, init_state an array of the dtype given
\* ("int8", "float64"), or <<>> for None.  Line 32 hands TwoPlayersGame.__init__ the Board where it
\* takes the array, so the state of the game's board is that Board: with
\* save_history Game.__init__ asks it for copy() (game.py line 55), without
\* _get_last_player finds in it one value, which is not 0 and not player
\* 1's (game.py line 115).  No call returns an object.
TicTacToeInit(init_state, dtype, save_history) ==
    IF init_state # <<>> /\ DOMAIN init_state # Cells(3)
    THEN [raised |-> "AssertionError", self |-> <<>>]
    ELSE IF init_state # <<>> /\ dtype # "int8"
    THEN [raised |-> "TypeError", self |-> <<>>]
    ELSE IF save_history
    THEN [raised |-> "AttributeError", self |-> <<>>]
    ELSE [raised |-> "ValueError", self |-> <<>>]

(***************************************************************************)
(* src/mcts/games/connect4.py.  An object is a record of the attributes    *)
(* assigned so far; <<>> stands for no object and for init_state None.  A  *)
(* list is a sequence, the 6x7 array a function of the cells <<row, col>>  *)
(* counted from 0, and the iterator players_gen the sequence of the        *)
(* players it yields next, one round of the cycle.                         *)
(***************************************************************************)
Connect4Shape == <<6, 7>>

\* Connect4.__init__, dtype the dtype of the array init_state: an array of
\* another shape than 6x7 fails the assertion of line 27 and one of another
\* dtype than int8 raises TypeError (line 29).  Otherwise the arguments of
\* the superclass constructor call of line 33 name `players`, which is bound
\* nowhere, so the call raises NameError before any attribute is assigned
Connect4Init(init_state, dtype, save_history) ==
    IF init_state # <<>>
       /\ DOMAIN init_state # (0..(Connect4Shape[1] - 1)) \X (0..(Connect4Shape[2] - 1))
    THEN [raised |-> "AssertionError", self |-> <<>>]
    ELSE IF init_state # <<>> /\ dtype # "int8"
    THEN [raised |-> "TypeError", self |-> <<>>]
    ELSE [raised |-> "NameError", self |-> <<>>]

\* Connect4.legal_plays: winner() reads self.winner_; the board is read only
\* when there is no winner
Connect4LegalPlays(self) ==
    IF "winner_" \notin DOMAIN self
    THEN [raised |-> "AttributeError", ret |-> <<>>]
    ELSE IF self.winner_ # NoPlayer
    THEN [raised |-> "", ret |-> <<>>]
    ELSE IF "state" \notin DOMAIN self \/ "players_values" \notin DOMAIN self
    THEN [raised |-> "AttributeError", ret |-> <<>>]
    ELSE [raised |-> "",
          ret |-> LET free == {j \in 0..(Connect4Shape[2] - 1) :
                                  \E r \in 0..(Connect4Shape[1] - 1) :
                                      self.state[<<r, j>>] \notin Range(self.players_values)}
                  IN CHOOSE q \in [1..Cardinality(free) -> free] :
                         \A a, b \in 1..Cardinality(free) : a < b => q[a] < q[b]]

\* str(v) of an int8, as the sequence of its characters
Str(v) ==
    LET a == IF v < 0 THEN 0 - v ELSE v
        chars == <<"0", "1", "2", "3", "4", "5", "6", "7", "8", "9">>
        digits == IF a < 10 THEN <<a>>
                  ELSE IF a < 100 THEN <<a \div 10, a % 10>>
                  ELSE <<a \div 100, (a \div 10) % 10, a % 10>>
    IN (IF v < 0 THEN <<"-">> ELSE <<>>) \o [k \in 1..Len(digits) |-> chars[digits[k] + 1]]

\* ''.join([str(i) for i in space])
JoinStr(space) ==
    LET text[k \in 0..Len(space)] ==
            IF k = 0 THEN <<>> ELSE text[k - 1] \o Str(space[k])
    IN text[Len(space)]

\* pattern in text
InText(pattern, text) ==
    \E s \in 0..(Len(text) - Len(pattern)) : SubSeq(text, s + 1, s + Len(pattern)) = pattern

\* the spaces_to_check of lines 132-133 around row i (as play computed it,
\* negative when it counts from the last row) and column j of a 6x7 array x
SpacesToCheck(x, i, j) ==
    LET rows == Connect4Shape[1]
        cols == Connect4Shape[2]
        row == IF i < 0 THEN i + rows ELSE i
        stop == IF i + 4 < 0 THEN Max(i + 4 + rows, 0) ELSE Min(i + 4, rows)
        top == Max(i - 3, 0)
        left == Max(j - 3, 0)
        right == Min(j + 4, cols)
        offset == j - i
        first == Max(0, 0 - offset)
        last == Min(rows - 1, cols - 1 - offset)
        back == rows - (i + j)
        bfirst == Max(0, 0 - back)
        blast == Min(rows - 1, cols - 1 - back)
    IN << [k \in 1..(stop - top) |-> x[<<top + k - 1, j>>]],
          [k \in 1..(right - left) |-> x[<<row, left + k - 1>>]],
          [k \in 1..(last - first + 1) |-> x[<<first + k - 1, first + k - 1 + offset>>]],
          [k \in 1..(blast - bfirst + 1) |->
              x[<<bfirst + k - 1, cols - 1 - (bfirst + k - 1 + back)>>]] >>

\* Connect4.play(move) for a move that is given, on a 6x7 state: the object
\* as the statements up to the first exception, or up to the return, leave it
Connect4Play(self, move) ==
    LET legal_plays == Connect4LegalPlays(self)
        row_number == self.board_size[1]
                      - Cardinality({r \in 0..(Connect4Shape[1] - 1) :
                                        self.state[<<r, move>>] # 0}) - 1
        row == IF row_number < 0 THEN row_number + Connect4Shape[1] ELSE row_number
        state == [self.state EXCEPT ![<<row, move>>] = self.current_player.value]
        placed == [k \in DOMAIN self \cup {"last_play"} |->
                      IF k = "state" THEN state
                      ELSE IF k = "last_play" THEN move
                      ELSE self[k]]
        saved == [k \in DOMAIN placed \cup {"history"} |->
                     IF k # "history" THEN placed[k]
                     ELSE IF self.save_history THEN Append(self.history, state)
                     ELSE <<state>>]
        pattern == JoinStr([k \in 1..4 |-> self.current_player.value])
        spaces_to_check == SpacesToCheck(state, row_number, move)
        won == [k \in DOMAIN saved \cup {"winner_"} |->
                   IF k = "winner_" THEN self.current_player ELSE saved[k]]
    IN IF legal_plays.raised # ""
       THEN [raised |-> legal_plays.raised, self |-> self]
       ELSE IF move \notin Range(legal_plays.ret)
       THEN [raised |-> "ValueError", self |-> self]
       ELSE IF "board_size" \notin DOMAIN self \/ "current_player" \notin DOMAIN self
       THEN [raised |-> "AttributeError", self |-> self]
       ELSE IF row \notin 0..(Connect4Shape[1] - 1)
       THEN [raised |-> "IndexError", self |-> self]
       ELSE IF "save_history" \notin DOMAIN self
       THEN [raised |-> "AttributeError", self |-> placed]
       ELSE IF self.save_history /\ "history" \notin DOMAIN self
       THEN [raised |-> "AttributeError", self |-> placed]
       ELSE IF \E k \in 1..4 : InText(pattern, JoinStr(spaces_to_check[k]))
       THEN [raised |-> "", self |-> won]
       ELSE IF "players_gen" \notin DOMAIN self
       THEN [raised |-> "AttributeError", self |-> saved]
       ELSE [raised |-> "",
             self |-> [saved EXCEPT
                         !.current_player = Head(self.players_gen),
                         !.players_gen = Append(Tail(self.players_gen),
                                                Head(self.players_gen))]]

RECURSIVE Connect4PlayAll(_, _)
\* for move in moves: game.play(move=move), stopped by the first exception
Connect4PlayAll(r, moves) ==
    IF r.raised # "" \/ moves = <<>> THEN r
    ELSE Connect4PlayAll(Connect4Play(r.self, Head(moves)), Tail(moves))

\* Connect4(**kwargs), kwargs the record of the keyword arguments and dtype
\* the dtype of the array given as init_state: a keyword that is no
\* parameter of __init__ raises TypeError before the body runs, and a
\* parameter that is not given has its default
Connect4New(kwargs, dtype) ==
    IF ~(DOMAIN kwargs \subseteq {"init_state", "save_history"})
    THEN [raised |-> "TypeError", self |-> <<>>]
    ELSE Connect4Init(IF "init_state" \in DOMAIN kwargs THEN kwargs.init_state ELSE <<>>,
                      dtype,
                      IF "save_history" \in DOMAIN kwargs THEN kwargs.save_history
                      ELSE TRUE)

\* game = Connect4(init_state=init_state, save_history=save_history), then
\* game.play(move) for each of the moves
Connect4Game(init_state, dtype, save_history, moves) ==
    Connect4PlayAll(Connect4New([init_state |-> init_state,
                                 save_history |-> save_history], dtype), moves)

\* what the name Game of src/test/test_connect4.py can stand for: the class
\* its line 4 imports, whose module src/ does not hold, or the class of src/
\* in its place
TestConnect4Games == {"games.connect4.Game", "mcts.games.connect4.Connect4"}

\* the moves of setUp
TestConnect4Moves == <<3, 1, 3, 2, 5, 4, 4, 2, 2, 3, 4>>

\* src/test/test_connect4.py up to the end of setUp: the import of line 4,
\* which finds no module unless Game is the class of src/, then
\* Game(board_size=(6, 7), save_history=True) and the plays
TestConnect4SetUp(Game, moves) ==
    IF Game # "mcts.games.connect4.Connect4"
    THEN [raised |-> "ModuleNotFoundError", self |-> <<>>]
    ELSE Connect4PlayAll(Connect4New([board_size |-> Connect4Shape,
                                      save_history |-> TRUE], ""), moves)

(***************************************************************************)
(* src/utils/scoring.py -- a score is an integer in units of 1/ScoreScale. *)
(* np.log and np.sqrt are computed on decimal numbers of any length: a     *)
(* number x >= 0 is the sequence of the digits of floor(x * Base^FracLimbs)*)
(* in base Base, lowest digit first, without leading zeros.                *)
(***************************************************************************)
ScoreScale == 10000000

Base == 10000

FracLimbs == 5

Limb(a, k) == IF k \in DOMAIN a THEN a[k] ELSE 0

\* the digits so far with one more: the lowest digit of v, the rest of v
\* being carried on; used is the place of the highest digit that is not 0
CarryPut(prev, v, k) ==
    [carry |-> v \div Base,
     digits |-> Append(prev.digits, v % Base),
     used |-> IF v % Base # 0 THEN k ELSE prev.used]

CarryStep(prev, limb, k) == CarryPut(prev, limb + prev.carry, k)

\* the digits without the leading zeros
Trimmed(last) == SubSeq(last.digits, 1, last.used)

\* the digits of the number that has col[k] >= 0 in place k = 1..n
Carry(col, n) ==
    LET st[k \in 0..n] ==
            IF k = 0 THEN [carry |-> 0, digits |-> <<>>, used |-> 0]
            ELSE CarryStep(st[k - 1], Limb(col, k), k)
    IN Trimmed(st[n])

\* the digits of n >= 0
BigOfInt(n) == Carry(<<n>>, 3)

\* a + b
BigAdd(a, b) ==
    Carry([k \in 1..Max(Len(a), Len(b)) |-> Limb(a, k) + Limb(b, k)],
          Max(Len(a), Len(b)) + 1)

\* a * b
BigMul(a, b) ==
    LET col(k) ==
            LET s[j \in 0..Len(a)] ==
                    IF j = 0 THEN 0 ELSE s[j - 1] + a[j] * Limb(b, k + 1 - j)
            IN s[Len(a)]
    IN Carry([k \in 1..(Len(a) + Len(b)) |-> col(k)] \o <<>>, Len(a) + Len(b))

\* a <= b, for numbers that differ in the places of differ
LeqWhere(a, b, differ) ==
    \/ differ = {}
    \/ LET k == CHOOSE k \in differ : \A j \in differ : j <= k
       IN Limb(a, k) < Limb(b, k)

\* a <= b
BigLeq(a, b) ==
    LeqWhere(a, b, {k \in 1..Max(Len(a), Len(b)) : Limb(a, k) # Limb(b, k)})

\* floor(a / d), 0 < d <= 200000
BigDiv(a, d) ==
    LET rem[k \in 1..(Len(a) + 1)] ==
            IF k = Len(a) + 1 THEN 0 ELSE (rem[k + 1] * Base + a[k]) % d
    IN Carry([k \in 1..Len(a) |-> (rem[k + 1] * Base + a[k]) \div d] \o <<>>, Len(a))

\* a * Base^n
Shift(a, n) == IF a = <<>> THEN <<>> ELSE [k \in 1..n |-> 0] \o a

\* floor(a / Base^n)
Drop(a, n) == IF Len(a) <= n THEN <<>> ELSE SubSeq(a, n + 1, Len(a))

\* floor(a / 2^k)
Halved(a, k) ==
    LET h[j \in 0..(k \div 15)] ==
            IF j = 0 THEN BigDiv(a, 2 ^ (k % 15)) ELSE BigDiv(h[j - 1], 32768)
    IN h[k \div 15]

\* 1, 2 and ln 2 = 0.69314718055994530941...
One == Shift(<<1>>, FracLimbs)

Two == Shift(<<2>>, FracLimbs)

Ln2 == <<941, 9453, 559, 4718, 6931>>

\* the next binary digit of log2(x), 1 <= x < 2, after digits, from the
\* square y of x: the digit is 1 exactly when y is at least 2
Log2Put(digits, y) ==
    IF BigLeq(Two, y)
    THEN [x |-> BigDiv(y, 2), digits |-> 2 * digits + 1]
    ELSE [x |-> y, digits |-> 2 * digits]

Log2Step(prev) ==
    IF prev.x = One THEN [prev EXCEPT !.digits = 2 * @]
    ELSE Log2Put(prev.digits, Drop(BigMul(prev.x, prev.x), FracLimbs))

\* n more binary digits of log2(x), 1 <= x < 2, as a number below 2^n, and
\* the x left after them
Log2Digits(x, n) ==
    LET st[j \in 0..n] ==
            IF j = 0 THEN [x |-> x, digits |-> 0] ELSE Log2Step(st[j - 1])
    IN st[n]

\* digits / 2^k
Log2Part(digits, k) == Halved(Shift(BigOfInt(digits), FracLimbs), k)

\* log2 with the 15 binary digits d after the first 15 * (i - 1)
Log2Add(log2, d, i) ==
    [x |-> d.x, log2 |-> BigAdd(log2, Log2Part(d.digits, 15 * i))]

Log2Chunk(prev, i) ==
    IF prev.x = One THEN prev
    ELSE Log2Add(prev.log2, Log2Digits(prev.x, 15), i)

\* log2(n) to 60 binary digits, 15 at a time, for 2^k <= n < 2^(k + 1)
Log2(n, k) ==
    LET st[i \in 0..4] ==
            IF i = 0 THEN [x |-> Halved(Shift(BigOfInt(n), FracLimbs), k),
                           log2 |-> Shift(BigOfInt(k), FracLimbs)]
            ELSE Log2Chunk(st[i - 1], i)
    IN st[4].log2

\* np.log(n), 1 <= n < 2^31
NpLog(n) ==
    Drop(BigMul(Log2(n, CHOOSE k \in 0..30 : n \div (2 ^ k) = 1), Ln2), FracLimbs)

\* the bounds prev for the largest m with holds[m], halved
BisectAt(holds, prev, mid) ==
    IF holds[mid] THEN [prev EXCEPT !.lo = mid] ELSE [prev EXCEPT !.hi = mid - 1]

BisectStep(holds, prev) ==
    IF prev.lo >= prev.hi THEN prev
    ELSE BisectAt(holds, prev, (prev.lo + prev.hi + 1) \div 2)

\* the bounds left, after n bisections of lo..hi, for the largest m with
\* holds[m]; holds is true up to some m and false beyond it
Bisect(holds, lo, hi, n) ==
    LET st[j \in 0..n] ==
            IF j = 0 THEN [lo |-> lo, hi |-> hi] ELSE BisectStep(holds, st[j - 1])
    IN st[n]

BisectChunk(holds, prev) ==
    IF prev.lo >= prev.hi THEN prev ELSE Bisect(holds, prev.lo, prev.hi, 10)

\* the largest m in lo..hi with holds[m], hi - lo < 2^30
Largest(holds, lo, hi) ==
    LET st[i \in 0..3] ==
            IF i = 0 THEN [lo |-> lo, hi |-> hi] ELSE BisectChunk(holds, st[i - 1])
    IN st[3].lo

\* s^2 * plays <= L * Base
SquareLeq(s, plays, L) ==
    BigLeq(BigMul(BigMul(s, s), BigOfInt(plays)), Shift(L, 1))

\* (high * Base + low)^2 * plays <= L * Base, that is, with L = np.log(
\* total_plays): (high * Base + low) / 10^12 <= sqrt(L / plays)
SquareFits(L, plays, high, low) ==
    SquareLeq(BigAdd(Shift(BigOfInt(high), 1), BigOfInt(low)), plays, L)

\* sqrt(L / plays) once its first digits are known: <<high, low>> with
\* floor(10^12 * it) = high * Base + low
SqrtLow(L, plays, high) ==
    <<high, Largest([m \in 0..(Base - 1) |-> SquareFits(L, plays, high, m)], 0, Base - 1)>>

\* sqrt(L / plays), plays >= 1
SqrtOver(L, plays) ==
    IF L = <<>> THEN <<0, 0>>
    ELSE SqrtLow(L, plays,
                 Largest([m \in 0..500000000 |-> SquareFits(L, plays, m, 0)], 0, 500000000))

\* np.sqrt(np.log(total_plays) / plays), total_plays >= 1, plays >= 1
SqrtLogOver(total_plays, plays) == SqrtOver(NpLog(total_plays), plays)

\* SqrtLogOver(total_plays, plays) for total_plays, plays = 1..16, tabulated
SqrtLogTable ==
 <<
    << <<0, 0>>, <<0, 0>>, <<0, 0>>, <<0, 0>>,
       <<0, 0>>, <<0, 0>>, <<0, 0>>, <<0, 0>>,
       <<0, 0>>, <<0, 0>>, <<0, 0>>, <<0, 0>>,
       <<0, 0>>, <<0, 0>>, <<0, 0>>, <<0, 0>> >>,
    << <<83255461, 1157>>, <<58870501, 1257>>, <<48067562, 8866>>, <<41627730, 5578>>,
       <<37232974, 1105>>, <<33988899, 6722>>, <<31467606, 4857>>, <<29435250, 5628>>,
       <<27751820, 3719>>, <<26327688, 4773>>, <<25102466, 244>>, <<24033781, 4433>>,
       <<23090910, 3088>>, <<22250957, 9337>>, <<21496467, 6254>>, <<20813865, 2789>> >>,
    << <<104814707, 3968>>, <<74115190, 3683>>, <<60514799, 5305>>, <<52407353, 6984>>,
       <<46874562, 1562>>, <<42790425, 1102>>, <<39616235, 6448>>, <<37057595, 1841>>,
       <<34938235, 7989>>, <<33145320, 7658>>, <<31602823, 3587>>, <<30257399, 7652>>,
       <<29070369, 3801>>, <<28012908, 8695>>, <<27063041, 790>>, <<26203676, 8492>> >>,
    << <<117741002, 2515>>, <<83255461, 1157>>, <<67977799, 3445>>, <<58870501, 1257>>,
       <<52655376, 9546>>, <<48067562, 8866>>, <<44501915, 8675>>, <<41627730, 5578>>,
       <<39247000, 7505>>, <<37232974, 1105>>, <<35500247, 9007>>, <<33988899, 6722>>,
       <<32655478, 5263>>, <<31467606, 4857>>, <<30400596, 590>>, <<29435250, 5628>> >>,
    << <<126863624, 1179>>, <<89706128, 8997>>, <<73244747, 5348>>, <<63431812, 589>>,
       <<56735137, 4799>>, <<51791857, 6682>>, <<47949942, 8337>>, <<44853064, 4498>>,
       <<42287874, 7059>>, <<40117800, 4436>>, <<38250821, 8858>>, <<36622373, 7674>>,
       <<35185638, 5960>>, <<33905729, 7352>>, <<32756046, 8965>>, <<31715906, 294>> >>,
    << <<133856619, 9045>>, <<94650923, 6412>>, <<77282155, 5347>>, <<66928309, 9522>>,
       <<59862500, 2690>>, <<54646736, 2433>>, <<50593046, 8010>>, <<47325461, 8206>>,
       <<44618873, 3015>>, <<42329179, 8789>>, <<40359289, 4480>>, <<38641077, 7673>>,
       <<37125146, 6635>>, <<35774686, 4738>>, <<34561630, 6446>>, <<33464154, 9761>> >>,
    << <<139495883, 4179>>, <<98638485, 1124>>, <<80537985, 8421>>, <<69747941, 7089>>,
       <<62384455, 5807>>, <<56948955, 9321>>, <<52724488, 630>>, <<49319242, 5562>>,
       <<46498627, 8059>>, <<44112471, 5818>>, <<42059591, 3724>>, <<40268992, 9210>>,
       <<38689196, 9522>>, <<37281843, 439>>, <<36017682, 2228>>, <<34873970, 8544>> >>,
    << <<144202688, 6600>>, <<101966699, 168>>, <<83255461, 1157>>, <<72101344, 3300>>,
       <<64489402, 8764>>, <<58870501, 1257>>, <<54503493, 2259>>, <<50983349, 5084>>,
       <<48067562, 8866>>, <<45600894, 886>>, <<43478746, 5496>>, <<41627730, 5578>>,
       <<39994629, 8479>>, <<38539789, 6584>>, <<37232974, 1105>>, <<36050672, 1650>> >>,
    << <<148230380, 7367>>, <<104814707, 3968>>, <<85580850, 2204>>, <<74115190, 3683>>,
       <<66290641, 5316>>, <<60514799, 5305>>, <<56025817, 7391>>, <<52407353, 6984>>,
       <<49410126, 9122>>, <<46874562, 1562>>, <<44693141, 4032>>, <<42790425, 1102>>,
       <<41111710, 6406>>, <<39616235, 6448>>, <<38272919, 7330>>, <<37057595, 1841>> >>,
    << <<151742712, 9385>>, <<107298301, 3144>>, <<87608696, 1626>>, <<75871356, 4692>>,
       <<67861404, 2441>>, <<61948703, 1474>>, <<57353354, 5287>>, <<53649150, 6572>>,
       <<50580904, 3128>>, <<47985259, 1218>>, <<45752149, 4079>>, <<43804348, 813>>,
       <<42085856, 3213>>, <<40554945, 9111>>, <<39179800, 79>>, <<37935678, 2346>> >>,
    << <<154851389, 1703>>, <<109496467, 3585>>, <<89403491, 2218>>, <<77425694, 5851>>,
       <<69251646, 5190>>, <<63217814, 9047>>, <<58528323, 7025>>, <<54748233, 6792>>,
       <<51617129, 7234>>, <<48968308, 8619>>, <<46689450, 5584>>, <<44701745, 6109>>,
       <<42948047, 9792>>, <<41385774, 5815>>, <<39982456, 7595>>, <<38712847, 2925>> >>,
    << <<157635866, 7876>>, <<111465390, 3637>>, <<91011110, 1237>>, <<78817933, 3938>>,
       <<70496902, 7658>>, <<64354573, 1318>>, <<59580757, 3177>>, <<55732695, 1818>>,
       <<52545288, 9292>>, <<49848837, 9983>>, <<47529002, 1488>>, <<45505555, 618>>,
       <<43720323, 1196>>, <<42129957, 5275>>, <<40701405, 7888>>, <<39408966, 6969>> >>,
    << <<160154592, 7365>>, <<113246398, 5621>>, <<92465297, 2284>>, <<80077296, 3682>>,
       <<71623311, 2535>>, <<65382838, 6946>>, <<60532746, 2436>>, <<56623199, 2810>>,
       <<53384864, 2455>>, <<50645329, 784>>, <<48288426, 5963>>, <<46232648, 6142>>,
       <<44418892, 86>>, <<42803115, 3527>>, <<41351738, 324>>, <<40038648, 1841>> >>,
    << <<162451756, 8269>>, <<114870738, 8679>>, <<93791565, 5343>>, <<81225878, 4134>>,
       <<72650634, 2658>>, <<66320652, 74>>, <<61400992, 6585>>, <<57435369, 4339>>,
       <<54150585, 6089>>, <<51371756, 1468>>, <<48981047, 6299>>, <<46895782, 7671>>,
       <<45056010, 6945>>, <<43417058, 2804>>, <<41944863, 2501>>, <<40612939, 2067>> >>,
    << <<164561544, 7515>>, <<116362584, 2163>>, <<95009652, 1605>>, <<82280772, 3757>>,
       <<73594160, 1093>>, <<67181969, 3209>>, <<62198417, 5396>>, <<58181292, 1081>>,
       <<54853848, 2505>>, <<52038929, 6690>>, <<49617172, 6238>>, <<47504826, 802>>,
       <<45641160, 5824>>, <<43980922, 8213>>, <<42489608, 1499>>, <<41140386, 1878>> >>,
    << <<166510922, 2315>>, <<117741002, 2515>>, <<96135125, 7733>>, <<83255461, 1157>>,
       <<74465948, 2211>>, <<67977799, 3445>>, <<62935212, 9715>>, <<58870501, 1257>>,
       <<55503640, 7438>>, <<52655376, 9546>>, <<50204932, 489>>, <<48067562, 8866>>,
       <<46181820, 6177>>, <<44501915, 8675>>, <<42992935, 2509>>, <<41627730, 5578>> >>
 >>

\* SqrtLogOver(total_plays, plays) for the plays the unit tests give to the
\* scoring functions and to the nodes of a tree, tabulated
SqrtLogOfTests ==
    <<50, 1>> :> <<197788346, 6088>> @@
    <<50, 50>> :> <<27971496, 2253>> @@
    <<50, 1000>> :> <<6254616, 6992>> @@
    <<1000, 1>> :> <<262826088, 4878>> @@
    <<1000, 50>> :> <<37169221, 8884>> @@
    <<1000, 1000>> :> <<8311290, 6813>> @@
    <<100, 50>> :> <<30348542, 5877>> @@
    <<1000, 4>> :> <<131413044, 2439>>

\* np.sqrt(np.log(total_plays) / plays)
SqrtLog(total_plays, plays) ==
    IF total_plays \in DOMAIN SqrtLogTable /\ plays \in DOMAIN SqrtLogTable[total_plays]
    THEN SqrtLogTable[total_plays][plays]
    ELSE IF <<total_plays, plays>> \in DOMAIN SqrtLogOfTests
    THEN SqrtLogOfTests[<<total_plays, plays>>]
    ELSE SqrtLogOver(total_plays, plays)

\* one more decimal of a quotient by den, after those of prev
DecimalsStep(prev, den) ==
    [digits |-> 10 * prev.digits + (10 * prev.rest) \div den,
     rest |-> (10 * prev.rest) % den]

\* the first n decimals of num / den, 0 <= num < den <= 2 * 10^8, and what
\* is left of the dividend after them
Decimals(num, den, n) ==
    LET st[j \in 0..n] ==
            IF j = 0 THEN [digits |-> 0, rest |-> num]
            ELSE DecimalsStep(st[j - 1], den)
    IN st[n]

\* wins / plays, 0 <= wins < plays, once its first 9 decimals are known:
\* <<high, low>> with floor(10^13 * it) = high * Base + low
MeanLow(first, plays) == <<first.digits, Decimals(first.rest, plays, 4).digits>>

\* min(mean + c_ * root, 1.0), mean and root to 13 decimals and c_ >= 0 in
\* tenths: the sum is taken to 13 decimals, of which the score keeps 7
CappedSum(mean, root, c_) ==
    IF c_ > 0 /\ root[1] >= (1000000000 + c_ - 1) \div c_ THEN ScoreScale
    ELSE Min((c_ * root[1] + mean[1] + (c_ * root[2] + mean[2]) \div Base) \div 100,
             ScoreScale)

\* min(wins / plays + c_ * np.sqrt(np.log(total_plays) / plays), 1.0) plus the
\* perturbation, 1 <= plays <= 2 * 10^8, 1 <= total_plays < 2^31, wins >= 0
Ucb1Score(plays, wins, total_plays, c_, rand) ==
    IF wins >= plays THEN ScoreScale + rand
    ELSE CappedSum(MeanLow(Decimals(wins, plays, 9), plays),
                   SqrtLog(total_plays, plays), c_) + rand

\* values np.random.rand() * 1e-6 can take, in units of 1/ScoreScale
JitterVals == 0..9

\* c_ = 0.5, in tenths
DefaultC == 5

\* slip: the ties are taken off the plays
AverageWinsOfDecided(plays, wins, ties) ==
    LET plays1 == Max(plays - ties, 1)
    IN (wins * ScoreScale) \div plays1

\* average_wins(plays, wins, ties)
AverageWins(plays, wins, ties) ==
    LET plays1 == Max(plays, 1)
    IN (wins * ScoreScale) \div plays1

\* ucb1(plays, wins, ties, total_plays, c_); rand is the np.random.rand() draw
Ucb1(plays, wins, ties, total_plays, c_, rand) ==
    Ucb1Score(Max(plays, 1), wins, Max(total_plays, 1), c_, rand)

(***************************************************************************)
(* src/mcts/utils/scoring.py, the revision of the scoring functions that   *)
(* src/tests/test_scoring.py imports                                       *)
(***************************************************************************)
\* the 99. returned for an arm that was never played
Sentinel == 99 * ScoreScale

\* float nan, which is no number: a value that no score takes
NaN == 0 - 1

\* mcts.utils.scoring.average_wins(plays, wins, ties)
MctsAverageWins(plays, wins, ties) ==
    IF plays = 0 THEN Sentinel
    ELSE (wins * ScoreScale) \div plays

\* mcts.utils.scoring.ucb1(plays, wins, ties, total_plays, c_), plays >= 0:
\* np.log(0) is -inf and its square root nan, which min and + hand on
MctsUcb1(plays, wins, ties, total_plays, c_, rand) ==
    IF plays = 0 THEN Sentinel
    ELSE IF total_plays < 1 THEN NaN
    ELSE Ucb1Score(plays, wins, total_plays, c_, rand)

(***************************************************************************)
(* numpy                                                                   *)
(***************************************************************************)
\* slip: the first smallest element is taken for the largest
ArgMaxOfLeast(scores) ==
    CHOOSE k \in 1..Len(scores) :
        /\ \A j \in 1..Len(scores) : scores[j] >= scores[k]
        /\ \A j \in 1..(k - 1) : scores[j] > scores[k]

\* np.argmax: index (from 1) of the first largest element
ArgMax(scores) ==
    CHOOSE k \in 1..Len(scores) :
        /\ \A j \in 1..Len(scores) : scores[j] <= scores[k]
        /\ \A j \in 1..(k - 1) : scores[j] < scores[k]

\* slip: the first largest element is taken for the smallest
ArgMinOfGreatest(scores) ==
    CHOOSE k \in 1..Len(scores) :
        /\ \A j \in 1..Len(scores) : scores[j] <= scores[k]
        /\ \A j \in 1..(k - 1) : scores[j] < scores[k]

\* np.argmin: index (from 1) of the first smallest element
ArgMin(scores) ==
    CHOOSE k \in 1..Len(scores) :
        /\ \A j \in 1..Len(scores) : scores[j] >= scores[k]
        /\ \A j \in 1..(k - 1) : scores[j] > scores[k]

(***************************************************************************)
(* src/mcts.py -- the tree.  A node is identified by its path from the     *)
(* root, <<0>> for the root and Append(parent, k) for its k-th child.      *)
(***************************************************************************)
RootId == <<0>>

\* object tag of the deep copies made by simulate
SimObj == <<-1>>

\* anytree Node(name, parent=parent, game=game, **node_init_params)
Node(name, parent, game) ==
    [name |-> name, parent |-> parent, children |-> <<>>, game |-> game,
     n_plays |-> 0, n_wins |-> 0, n_ties |-> 0, score |-> 0]

\* slip: the root starts as if it had been played once
NewTreePlayedOnce(game) ==
    RootId :> [Node("0", NoNode, game) EXCEPT !.n_plays = 1]

\* MonteCarloTreeSearch.__init__
NewTree(game) == RootId :> Node("0", NoNode, game)

\* slip: the walk to the root starts above the parent
RECURSIVE AncestorsAboveParent(_, _)
AncestorsAboveParent(T, n) ==
    IF T[n].parent = NoNode THEN {}
    ELSE IF T[T[n].parent].parent = NoNode THEN {}
    ELSE {T[T[n].parent].parent} \cup AncestorsAboveParent(T, T[n].parent)

\* anytree node.ancestors
RECURSIVE Ancestors(_, _)
Ancestors(T, n) ==
    IF T[n].parent = NoNode THEN {}
    ELSE {T[n].parent} \cup Ancestors(T, T[n].parent)

\* anytree node.depth
Depth(T, n) == Cardinality(Ancestors(T, n))

\* list(LevelOrderGroupIter(root)): the nodes level by level
RECURSIVE LevelsFrom(_, _)
LevelsFrom(T, level) ==
    LET RECURSIVE Kids(_)
        Kids(s) == IF s = <<>> THEN <<>>
                   ELSE T[Head(s)].children \o Kids(Tail(s))
        next == Kids(level)
    IN IF next = <<>> THEN <<level>> ELSE <<level>> \o LevelsFrom(T, next)

Levels(T) == LevelsFrom(T, <<RootId>>)

\* slip: the descent stops where it starts
SelectFromNowhere(T, n, jit) == [node |-> n, nodes |-> T]

\* MonteCarloTreeSearch.select; jit[c] is the random draw of ucb1 for child c.
\* scores holds child.score of the children of n, each computed once (lines
\* 47 to 53); the child of the highest is descended into (line 54)
RECURSIVE SelectFrom(_, _, _)
SelectFrom(T, n, jit) ==
    IF T[n].children = <<>> THEN [node |-> n, nodes |-> T]
    ELSE IF Len(LegalPlays(T[n].game)) > Len(T[n].children)
    THEN [node |-> n, nodes |-> T]
    ELSE LET ch == T[n].children
         IN CHOOSE r \in
                {SelectFrom([c \in DOMAIN T |->
                                IF c \in Range(ch)
                                THEN [T[c] EXCEPT !.score =
                                        scores[CHOOSE k \in DOMAIN ch : ch[k] = c]]
                                ELSE T[c]],
                            ch[ArgMax(scores)], jit) :
                 scores \in {[k \in 1..Len(ch) |->
                                Ucb1(T[ch[k]].n_plays, T[ch[k]].n_wins, T[ch[k]].n_ties,
                                     T[n].n_plays, DefaultC, jit[ch[k]])] \o <<>>}} : TRUE

\* slip: the descent does not stop at a node with unexplored plays
RECURSIVE SelectToLeaf(_, _, _)
SelectToLeaf(T, n, jit) ==
    IF T[n].children = <<>> THEN [node |-> n, nodes |-> T]
    ELSE LET ch == T[n].children
         IN CHOOSE r \in
                {SelectToLeaf([c \in DOMAIN T |->
                                IF c \in Range(ch)
                                THEN [T[c] EXCEPT !.score =
                                        scores[CHOOSE k \in DOMAIN ch : ch[k] = c]]
                                ELSE T[c]],
                            ch[ArgMax(scores)], jit) :
                 scores \in {[k \in 1..Len(ch) |->
                                Ucb1(T[ch[k]].n_plays, T[ch[k]].n_wins, T[ch[k]].n_ties,
                                     T[n].n_plays, DefaultC, jit[ch[k]])] \o <<>>}} : TRUE

SelectLeaf(T, jit) == SelectToLeaf(T, RootId, jit)

Select(T, jit) == SelectFrom(T, RootId, jit)

\* select(scoring_func): with ucb1, select; with an object that is no
\* function, the first call of scoring_func (line 49) raises TypeError, and
\* the calls that return before line 49 return as they do with ucb1
SelectWith(T, jit, scoring_func) ==
    IF scoring_func = "ucb1"
    THEN LET r == Select(T, jit)
         IN [raised |-> "", node |-> r.node, nodes |-> r.nodes]
    ELSE IF /\ T[RootId].children # <<>>
            /\ ~(Len(LegalPlays(T[RootId].game)) > Len(T[RootId].children))
    THEN [raised |-> "TypeError", node |-> NoNode, nodes |-> T]
    ELSE [raised |-> "", node |-> RootId, nodes |-> T]

\* slip: only the play of the first child counts as already played
AlreadyPlayedByFirstChild(T, parent) ==
    {T[T[parent].children[k]].game.last_play : k \in {1} \cap DOMAIN T[parent].children}

\* the already_played list of expand
AlreadyPlayed(T, parent) ==
    {T[c].game.last_play : c \in Range(T[parent].children)}

\* slip: the plays already expanded are not filtered out
UnexploredPlaysUnfiltered(T, parent) == LegalPlays(T[parent].game)

\* the unexplored_plays list of expand
UnexploredPlays(T, parent) ==
    LET already_played == AlreadyPlayed(T, parent)
    IN SelectSeq(LegalPlays(T[parent].game), LAMBDA play : play \notin already_played)

\* slip: with nothing left to expand, the last child is returned
ExpandOrLastChild(T, parent, choice) ==
    LET unexplored_plays == UnexploredPlays(T, parent)
    IN IF unexplored_plays # <<>>
       THEN LET selected_play == unexplored_plays[choice + 1]
                child == Append(parent, Len(T[parent].children))
                child_game == Play(DeepCopy(T[parent].game, child), selected_play)
                child_name == T[parent].name \o "_" \o ToString(Len(T[parent].children))
            IN [node |-> child,
                nodes |-> (child :> Node(child_name, parent, child_game))
                          @@ [T EXCEPT ![parent].children = Append(@, child)]]
       ELSE [node |-> IF T[parent].children = <<>> THEN parent
                      ELSE T[parent].children[Len(T[parent].children)],
             nodes |-> T]

\* slip: the child keeps a copy of the parent's game, the play is not made
ChildGameNotPlayed(T, parent, child, selected_play) ==
    [DeepCopy(T[parent].game, child) EXCEPT !.last_play = selected_play]

\* the child_game of expand: the play made on a deep copy of the parent's game
ChildGame(T, parent, child, selected_play) ==
    Play(DeepCopy(T[parent].game, child), selected_play)

\* slip: the child is numbered by the depth of its parent
ChildNameOfDepth(T, parent) ==
    T[parent].name \o "_" \o ToString(Depth(T, parent))

\* the child_name of expand
ChildName(T, parent) ==
    T[parent].name \o "_" \o ToString(Len(T[parent].children))

\* MonteCarloTreeSearch.expand; choice is the np.random.choice draw (from 0)
Expand(T, parent, choice) ==
    LET unexplored_plays == UnexploredPlays(T, parent)
    IN IF unexplored_plays # <<>>
       THEN LET selected_play == unexplored_plays[choice + 1]
                child == Append(parent, Len(T[parent].children))
                child_game == ChildGame(T, parent, child, selected_play)
                child_name == ChildName(T, parent)
            IN [node |-> child,
                nodes |-> (child :> Node(child_name, parent, child_game))
                          @@ [T EXCEPT ![parent].children = Append(@, child)]]
       ELSE [node |-> parent, nodes |-> T]

\* slip: the rollouts are played on the node's own game, without a deep copy
SimObjectsShared(game) == [node |-> game, copy |-> game, ref |-> "node"]

\* the game objects of one simulation: the node's game, its deep copy of
\* line 97, and the one of the two the local variable `game` refers to
SimObjects(game) == [node |-> game, copy |-> DeepCopy(game, SimObj), ref |-> "copy"]

\* "while game.legal_plays(): game.play()": the objects once a rollout is over
RECURSIVE Rollout(_)
Rollout(h) ==
    LET legal_plays == LegalPlays(h[h.ref])
    IN IF legal_plays = <<>> THEN {h}
       ELSE UNION {Rollout([h EXCEPT ![h.ref] = Play(h[h.ref], m)])
                   : m \in Range(legal_plays)}

\* the winner a rollout can end with, and the node's game as it is then
RolloutEnds(h) == {[winner |-> Winner(e[e.ref]), game |-> e.node] : e \in Rollout(h)}

\* slip: the second test is made on every rollout, for a winner instead of none
TallyAnyWinner(winner, node_player, n_wins, n_ties) ==
    [n_wins |-> IF PlayerEq(winner, node_player) THEN n_wins + 1 ELSE n_wins,
     n_ties |-> IF winner # NoPlayer THEN n_ties + 1 ELSE n_ties]

\* lines 104-107: the counters after one rollout
Tally(winner, node_player, n_wins, n_ties) ==
    IF PlayerEq(winner, node_player)
    THEN [n_wins |-> n_wins + 1, n_ties |-> n_ties]
    ELSE IF winner = NoPlayer
    THEN [n_wins |-> n_wins, n_ties |-> n_ties + 1]
    ELSE [n_wins |-> n_wins, n_ties |-> n_ties]

\* the loop of simulate: the results it can end with, and the node's game then
RECURSIVE SimulateLoop(_, _, _, _)
SimulateLoop(game, remaining, n_wins, n_ties) ==
    IF remaining = 0 THEN {[n_wins |-> n_wins, n_ties |-> n_ties, game |-> game]}
    ELSE LET h == SimObjects(game)
             node_player == h[h.ref].current_player
         IN UNION {LET t == Tally(e.winner, node_player, n_wins, n_ties)
                   IN SimulateLoop(e.game, remaining - 1, t.n_wins, t.n_ties)
                   : e \in RolloutEnds(h)}

\* slip: every game the node's player has not won is returned as a tie
SimulateLossesAsTies(T, node, n_simulations) ==
    {[n_wins |-> r.n_wins, n_ties |-> n_simulations - r.n_wins,
      nodes |-> [T EXCEPT ![node].game = r.game]]
     : r \in SimulateLoop(T[node].game, n_simulations, 0, 0)}

\* MonteCarloTreeSearch.simulate: the (n_wins, n_ties) it can return, each
\* with the tree as the call leaves it
Simulate(T, node, n_simulations) ==
    {[n_wins |-> r.n_wins, n_ties |-> r.n_ties,
      nodes |-> [T EXCEPT ![node].game = r.game]]
     : r \in SimulateLoop(T[node].game, n_simulations, 0, 0)}

\* slip: the ties are not taken off the other player's wins (as logged on line 141)
AncestorWinsWithTies(same_player, n_plays, n_wins, n_ties) ==
    IF same_player THEN n_wins ELSE n_plays - n_wins

\* the wins an ancestor is credited with (mcts.py lines 136-140)
AncestorWins(same_player, n_plays, n_wins, n_ties) ==
    IF same_player THEN n_wins ELSE n_plays - n_ties - n_wins

\* slip: only the node itself is updated
BackpropagateNodeOnly(T, node, n_plays, n_wins, n_ties) ==
    [T EXCEPT ![node].n_plays = @ + n_plays,
              ![node].n_wins = @ + n_wins,
              ![node].n_ties = @ + n_ties]

\* MonteCarloTreeSearch.backpropagate
Backpropagate(T, node, n_plays, n_wins, n_ties) ==
    LET ancestors == Ancestors(T, node)
    IN [m \in DOMAIN T |->
          IF m = node
          THEN [T[m] EXCEPT !.n_plays = @ + n_plays,
                            !.n_wins = @ + n_wins,
                            !.n_ties = @ + n_ties]
          ELSE IF m \in ancestors
          THEN [T[m] EXCEPT
                  !.n_plays = @ + n_plays,
                  !.n_ties = @ + n_ties,
                  !.n_wins = @ + AncestorWins(
                                 PlayerEq(T[node].game.current_player,
                                          T[m].game.current_player),
                                 n_plays, n_wins, n_ties)]
          ELSE T[m]]

\* MonteCarloTreeSearch.recommended_play with scoring_func = average_wins
RecommendedPlay(T) ==
    LET levels == Levels(T)
    IN IF levels # <<>>
       THEN IF Len(levels) < 2
            THEN [raised |-> "IndexError", play |-> NoPlay]
            ELSE LET level1_nodes == levels[2]
                     scores == [k \in 1..Len(level1_nodes) |->
                                  AverageWins(T[level1_nodes[k]].n_plays,
                                              T[level1_nodes[k]].n_wins,
                                              T[level1_nodes[k]].n_ties)]
                     best_node == level1_nodes[ArgMin(scores)]
                 IN [raised |-> "", play |-> T[best_node].game.last_play]
       ELSE [raised |-> "", play |-> NoPlay]

(***************************************************************************)
(* State: the engine's tree, the position and locals of search(), whether  *)
(* a unit test has made the call it tests on the tree it built, the game   *)
(* `played` that the caller holds, and the most recent function or method  *)
(* call with its arguments and result.                                     *)
(***************************************************************************)
VARIABLES nodes, pc, i, max_iterations, n_simulations, node, expanded_node,
          n_wins, n_ties, iters, tested, played, call

vars == <<nodes, pc, i, max_iterations, n_simulations, node, expanded_node,
          n_wins, n_ties, iters, tested, played, call>>

\* Game() followed by game.play(move) for each move of the sequence
RECURSIVE PlayAll(_, _)
PlayAll(game, moves) ==
    IF moves = <<>> THEN game ELSE PlayAll(Play(game, Head(moves)), Tail(moves))

\* three empty cells, player A to move
Open3 == << <<0, 0>>, <<1, 1>>, <<2, 2>>, <<0, 2>>, <<2, 0>>, <<1, 0>> >>

\* two empty cells, player B to move
Open2 == Open3 \o << <<1, 2>> >>

\* player A has won with the top row
OpenWon == << <<0, 0>>, <<1, 0>>, <<0, 1>>, <<1, 1>>, <<0, 2>> >>

\* one empty cell, player A to move
Open1 == Open2 \o << <<2, 1>> >>

\* games handed to the engines driven through direct method calls
ApiOpenings == {Open3, OpenWon}

\* games handed to the engines driven through search()
Openings == {<<>>, Open3, Open2, Open1, OpenWon}

NoCall ==
    [op |-> "", node |-> NoNode, n_plays |-> 0, n_wins |-> 0, n_ties |-> 0,
     ret |-> NoNode, play |-> NoPlay, raised |-> "", jit |-> <<>>,
     max_iterations |-> 0, module |-> "", scoring_func |-> "",
     total_plays |-> 0, c_ |-> 0, rand |-> 0, score |-> 0,
     init_state |-> <<>>, last_player |-> NoPlayer, current_player |-> NoPlayer,
     moves |-> <<>>, state |-> <<>>, winner |-> NoPlayer, dtype |-> ""]

\* an engine on Game(board_size=3, save_history=save_history) after the
\* plays of one of the openings
InitWith(openings, save_history) ==
    /\ \E moves \in openings :
          /\ played = PlayAll(NewGame(3, save_history, RootId), moves)
          /\ nodes = NewTree(played)
    /\ pc = "idle"
    /\ i = 0
    /\ max_iterations = 0
    /\ n_simulations = 0
    /\ node = NoNode
    /\ expanded_node = NoNode
    /\ n_wins = 0
    /\ n_ties = 0
    /\ iters = 0
    /\ tested = FALSE
    /\ call = NoCall

InitFrom(openings) == InitWith(openings, TRUE)

Init == InitFrom(Openings)

InitApi == InitFrom(ApiOpenings)

\* the children select scores on its way to node n (lines 47 to 53): those
\* of the nodes above n
ScoredAbove(T, n) == UNION {Range(T[a].children) : a \in Ancestors(T, n)}

\* the random draws of one select call: jit[c] is the draw of the ucb1 call
\* for child c, at most MaxDraw, and 0 where no call is made. The calls are
\* made for the children of the nodes above a node select can come to: the
\* root, or a child of a node that has a child for each of its legal plays,
\* as has every node above it
Jitters ==
    LET Draws == {v \in JitterVals : v <= MaxDraw}
        Scorable == {n \in DOMAIN nodes :
                        \A a \in Ancestors(nodes, n) :
                            Len(LegalPlays(nodes[a].game)) <= Len(nodes[a].children)}
    IN UNION {{[c \in DOMAIN nodes \ {RootId} |-> IF c \in DOMAIN j THEN j[c] ELSE 0] :
                  j \in [ScoredAbove(nodes, n) -> Draws]} : n \in Scorable}

\* the np.random.choice draws expand can make on a node
Choices(T, parent) == 0..Max(0, Len(UnexploredPlays(T, parent)) - 1)

(***************************************************************************)
(* search(max_iterations, max_runtime, n_simulations), one action per      *)
(* statement of its loop                                                   *)
(***************************************************************************)
\* search() is called: line 193-194
Search(mi, ns) ==
    /\ pc = "idle"
    /\ iters + mi <= MaxIter
    /\ pc' = "loop"
    /\ i' = 0
    /\ max_iterations' = mi
    /\ n_simulations' = ns
    /\ node' = RootId
    /\ call' = [NoCall EXCEPT !.op = "search", !.n_plays = ns,
                              !.max_iterations = mi]
    /\ UNCHANGED <<nodes, expanded_node, n_wins, n_ties, iters, tested, played>>

\* slip: the time budget ends the search wherever it stands
SearchReturnAnywhere ==
    /\ pc \in {"loop", "expand", "simulate", "backpropagate"}
    /\ pc' = "idle"
    /\ i' = 0
    /\ max_iterations' = 0
    /\ n_simulations' = 0
    /\ node' = NoNode
    /\ expanded_node' = NoNode
    /\ n_wins' = 0
    /\ n_ties' = 0
    /\ call' = [NoCall EXCEPT !.op = "search_return", !.n_plays = i,
                              !.max_iterations = max_iterations]
    /\ UNCHANGED <<nodes, iters, tested, played>>

\* the loop condition of line 195 is false (either budget is spent): return
SearchReturn ==
    /\ pc = "loop"
    /\ pc' = "idle"
    /\ i' = 0
    /\ max_iterations' = 0
    /\ n_simulations' = 0
    /\ node' = NoNode
    /\ expanded_node' = NoNode
    /\ n_wins' = 0
    /\ n_ties' = 0
    /\ call' = [NoCall EXCEPT !.op = "search_return", !.n_plays = i,
                              !.max_iterations = max_iterations]
    /\ UNCHANGED <<nodes, iters, tested, played>>

\* line 195 true, then line 198: node = self.select(); jit holds the draws
\* of the ucb1 calls of this select and no other
SearchSelect ==
    /\ pc = "loop"
    /\ i < max_iterations
    /\ \E jit \in Jitters :
          \E r \in {Select(nodes, jit)} :
             /\ \A c \in DOMAIN jit : jit[c] # 0 => c \in ScoredAbove(nodes, r.node)
             /\ nodes' = r.nodes
             /\ node' = r.node
             /\ call' = [NoCall EXCEPT !.op = "select", !.ret = r.node, !.jit = jit]
    /\ pc' = "expand"
    /\ UNCHANGED <<i, max_iterations, n_simulations, expanded_node, n_wins,
                   n_ties, iters, tested, played>>

\* slip: the rollouts start from the selected node, not from the new child
SearchExpandKeepsParent ==
    /\ pc = "expand"
    /\ \E choice \in Choices(nodes, node) :
          LET r == Expand(nodes, node, choice)
          IN /\ nodes' = r.nodes
             /\ expanded_node' = node
             /\ call' = [NoCall EXCEPT !.op = "expand", !.node = node, !.ret = r.node]
    /\ pc' = "simulate"
    /\ UNCHANGED <<i, max_iterations, n_simulations, node, n_wins, n_ties,
                   iters, tested, played>>

\* line 200: expanded_node = self.expand(parent=node)
SearchExpand ==
    /\ pc = "expand"
    /\ \E choice \in Choices(nodes, node) :
          LET r == Expand(nodes, node, choice)
          IN /\ nodes' = r.nodes
             /\ expanded_node' = r.node
             /\ call' = [NoCall EXCEPT !.op = "expand", !.node = node, !.ret = r.node]
    /\ pc' = "simulate"
    /\ UNCHANGED <<i, max_iterations, n_simulations, node, n_wins, n_ties,
                   iters, tested, played>>

\* line 202: n_wins, n_ties = self.simulate(expanded_node, n_simulations)
SearchSimulate ==
    /\ pc = "simulate"
    /\ Len(LegalPlays(nodes[expanded_node].game)) <= MaxRollout
    /\ \E r \in Simulate(nodes, expanded_node, n_simulations) :
          /\ nodes' = r.nodes
          /\ n_wins' = r.n_wins
          /\ n_ties' = r.n_ties
          /\ call' = [NoCall EXCEPT !.op = "simulate", !.node = expanded_node,
                                    !.n_plays = n_simulations,
                                    !.n_wins = r.n_wins, !.n_ties = r.n_ties]
    /\ pc' = "backpropagate"
    /\ UNCHANGED <<i, max_iterations, n_simulations, node,
                   expanded_node, iters, tested, played>>

\* slip: the iteration is not counted
SearchBackpropagateNoCount ==
    /\ pc = "backpropagate"
    /\ nodes' = Backpropagate(nodes, expanded_node, n_simulations, n_wins, n_ties)
    /\ call' = [NoCall EXCEPT !.op = "backpropagate", !.node = expanded_node,
                              !.n_plays = n_simulations,
                              !.n_wins = n_wins, !.n_ties = n_ties]
    /\ pc' = "loop"
    /\ UNCHANGED <<i, iters, max_iterations, n_simulations, node, expanded_node,
                   n_wins, n_ties, tested, played>>

\* line 203: self.backpropagate(expanded_node, n_simulations, n_wins, n_ties)
\* and line 206: i += 1
SearchBackpropagate ==
    /\ pc = "backpropagate"
    /\ nodes' = Backpropagate(nodes, expanded_node, n_simulations, n_wins, n_ties)
    /\ call' = [NoCall EXCEPT !.op = "backpropagate", !.node = expanded_node,
                              !.n_plays = n_simulations,
                              !.n_wins = n_wins, !.n_ties = n_ties]
    /\ i' = i + 1
    /\ iters' = iters + 1
    /\ pc' = "loop"
    /\ UNCHANGED <<max_iterations, n_simulations, node, expanded_node,
                   n_wins, n_ties, tested, played>>

\* slip: the scores computed for the level-1 nodes are cached in them
RecommendedPlayCallCaching ==
    /\ pc = "idle"
    /\ LET r == RecommendedPlay(nodes)
       IN call' = [NoCall EXCEPT !.op = "recommended_play",
                                 !.play = r.play, !.raised = r.raised]
    /\ nodes' = [m \in DOMAIN nodes |->
                    IF nodes[m].parent = RootId
                    THEN [nodes[m] EXCEPT !.score =
                            AverageWins(nodes[m].n_plays, nodes[m].n_wins, nodes[m].n_ties)]
                    ELSE nodes[m]]
    /\ UNCHANGED <<pc, i, max_iterations, n_simulations, node,
                   expanded_node, n_wins, n_ties, iters, tested, played>>

\* tree.recommended_play() between searches
RecommendedPlayCall ==
    /\ pc = "idle"
    /\ LET r == RecommendedPlay(nodes)
       IN call' = [NoCall EXCEPT !.op = "recommended_play",
                                 !.play = r.play, !.raised = r.raised]
    /\ UNCHANGED <<nodes, pc, i, max_iterations, n_simulations, node,
                   expanded_node, n_wins, n_ties, iters, tested, played>>

\* the n_simulations handed to search: one rollout, or the most
SearchSims == {1, MaxSims}

Next ==
    \/ \E mi \in 1..MaxIter, ns \in SearchSims : Search(mi, ns)
    \/ SearchReturn
    \/ SearchSelect
    \/ SearchExpand
    \/ SearchSimulate
    \/ SearchBackpropagate
    \/ RecommendedPlayCall

Spec == Init /\ [][Next]_vars

(***************************************************************************)
(* The methods called directly on the engine, as the unit tests do         *)
(***************************************************************************)
\* tree.expand(parent), while the test builds its tree
ApiExpand(parent) ==
    /\ pc = "idle"
    /\ ~tested
    /\ \/ Cardinality(DOMAIN nodes) < MaxNodes
       \/ UnexploredPlays(nodes, parent) = <<>>
    /\ \E choice \in Choices(nodes, parent) :
          LET r == Expand(nodes, parent, choice)
          IN /\ nodes' = r.nodes
             /\ call' = [NoCall EXCEPT !.op = "expand", !.node = parent, !.ret = r.node]
    /\ UNCHANGED <<pc, i, max_iterations, n_simulations, node, expanded_node,
                   n_wins, n_ties, iters, tested, played>>

\* slip: the plays are credited to the siblings of the node as well
ApiBackpropagateWithSiblings(n, p, w, t) ==
    /\ pc = "idle"
    /\ ~tested
    /\ w + t <= p
    /\ nodes' = [m \in DOMAIN nodes |->
                    IF m # n /\ nodes[m].parent = nodes[n].parent
                    THEN [nodes[m] EXCEPT !.n_plays = @ + p]
                    ELSE Backpropagate(nodes, n, p, w, t)[m]]
    /\ tested' = TRUE
    /\ call' = [NoCall EXCEPT !.op = "backpropagate", !.node = n,
                              !.n_plays = p, !.n_wins = w, !.n_ties = t]
    /\ UNCHANGED <<pc, i, max_iterations, n_simulations, node, expanded_node,
                   n_wins, n_ties, iters, played>>

\* tree.backpropagate(node, n_plays, n_wins, n_ties), once on the built tree
ApiBackpropagate(n, p, w, t) ==
    /\ pc = "idle"
    /\ ~tested
    /\ w + t <= p
    /\ nodes' = Backpropagate(nodes, n, p, w, t)
    /\ tested' = TRUE
    /\ call' = [NoCall EXCEPT !.op = "backpropagate", !.node = n,
                              !.n_plays = p, !.n_wins = w, !.n_ties = t]
    /\ UNCHANGED <<pc, i, max_iterations, n_simulations, node, expanded_node,
                   n_wins, n_ties, iters, played>>

\* tree.simulate(node, n_simulations), once on the built tree
ApiSimulate(n, ns) ==
    /\ pc = "idle"
    /\ ~tested
    /\ \E r \in Simulate(nodes, n, ns) :
          /\ nodes' = r.nodes
          /\ call' = [NoCall EXCEPT !.op = "simulate", !.node = n, !.n_plays = ns,
                                    !.n_wins = r.n_wins, !.n_ties = r.n_ties]
    /\ tested' = TRUE
    /\ UNCHANGED <<pc, i, max_iterations, n_simulations, node, expanded_node,
                   n_wins, n_ties, iters, played>>

\* what a caller hands to select as scoring_func: ucb1, or an object that is
\* none of the scoring functions
ScoringFuncs == {"ucb1", "unknown"}

\* tree.select(scoring_func), once on the built tree; jit holds the draws of
\* the ucb1 calls of this select and no other
ApiSelect(scoring_func) ==
    /\ pc = "idle"
    /\ ~tested
    /\ \E jit \in Jitters :
          \E r \in {SelectWith(nodes, jit, scoring_func)} :
             /\ \A c \in DOMAIN jit :
                   jit[c] # 0 => r.node # NoNode /\ c \in ScoredAbove(nodes, r.node)
             /\ nodes' = r.nodes
             /\ call' = [NoCall EXCEPT !.op = "select", !.ret = r.node, !.jit = jit,
                                       !.scoring_func = scoring_func,
                                       !.raised = r.raised]
    /\ tested' = TRUE
    /\ UNCHANGED <<pc, i, max_iterations, n_simulations, node, expanded_node,
                   n_wins, n_ties, iters, played>>

\* make_level(starting_node, n_nodes) of test_mcts.py: the plays are popped
\* from the end of the legal plays, and pop on the empty list raises
MakeLevel(T, starting_node, n_nodes) ==
    LET possible_plays == LegalPlays(T[starting_node].game)
        before == Len(T[starting_node].children)
        made[k \in 0..n_nodes] ==
            IF k = 0 THEN [raised |-> "", nodes |-> T]
            ELSE LET prev == made[k - 1]
                     child == Append(starting_node, before + k - 1)
                     move == possible_plays[Len(possible_plays) - (k - 1)]
                     new_game == Play(DeepCopy(T[starting_node].game, child), move)
                     new_name == T[starting_node].name \o "_" \o ToString(k - 1)
                 IN IF prev.raised # "" THEN prev
                    ELSE IF k > Len(possible_plays)
                    THEN [raised |-> "IndexError", nodes |-> prev.nodes]
                    ELSE [raised |-> "",
                          nodes |-> (child :> Node(new_name, starting_node, new_game))
                                    @@ [prev.nodes EXCEPT
                                          ![starting_node].children = Append(@, child)]]
    IN made[n_nodes]

\* self.make_level(starting_node, n_nodes), while the test builds its tree
ApiMakeLevel(starting_node, n_nodes) ==
    /\ pc = "idle"
    /\ ~tested
    /\ Cardinality(DOMAIN nodes) + n_nodes <= MaxNodes
    /\ LET r == MakeLevel(nodes, starting_node, n_nodes)
       IN /\ nodes' = r.nodes
          /\ call' = [NoCall EXCEPT !.op = "make_level", !.node = starting_node,
                                    !.n_plays = n_nodes, !.raised = r.raised]
    /\ UNCHANGED <<pc, i, max_iterations, n_simulations, node, expanded_node,
                   n_wins, n_ties, iters, tested, played>>

\* list(PreOrderIter(node))
RECURSIVE PreOrderIter(_, _)
PreOrderIter(T, n) ==
    LET below[k \in 0..Len(T[n].children)] ==
            IF k = 0 THEN <<>> ELSE below[k - 1] \o PreOrderIter(T, T[n].children[k])
    IN <<n>> \o below[Len(T[n].children)]

\* update_nodes(n_plays, n_wins, n_ties, nodes, node_names, include_ancestors)
\* of test_mcts.py.  An argument that can be None is the set of its values:
\* {} for None, {list} for a list, the list a sequence of nodes or of names.
\* findall gives every node of the tree that has the name.
UpdateNodes(T, n_plays_, n_wins_, n_ties_, nodes_, node_names, include_ancestors) ==
    LET selected_nodes ==
            IF nodes_ = {}
            THEN {n \in DOMAIN T : \E q \in node_names : T[n].name \in Range(q)}
            ELSE UNION {Range(q) \cap DOMAIN T : q \in nodes_}
        nodes_to_update ==
            IF include_ancestors
            THEN UNION {Ancestors(T, n) \cup {n} : n \in selected_nodes}
            ELSE selected_nodes
    IN IF (nodes_ = {}) = (node_names = {})
       THEN [raised |-> "ValueError", nodes |-> T]
       ELSE [raised |-> "",
             nodes |-> [m \in DOMAIN T |->
                          IF m \in nodes_to_update
                          THEN [T[m] EXCEPT !.n_plays = n_plays_, !.n_wins = n_wins_,
                                            !.n_ties = n_ties_]
                          ELSE T[m]]]

\* the fake plays and wins of test_select_level1 to 3: (n_plays, n_wins)
FakePlays == <<1000, 2>>

BestPlays == <<50, 45>>

\* self.update_nodes(...), while the test prepares its tree
ApiUpdateNodes(n_plays_, n_wins_, nodes_, node_names, include_ancestors) ==
    /\ pc = "idle"
    /\ ~tested
    /\ LET r == UpdateNodes(nodes, n_plays_, n_wins_, 0, nodes_, node_names,
                            include_ancestors)
       IN /\ nodes' = r.nodes
          /\ call' = [NoCall EXCEPT !.op = "update_nodes", !.raised = r.raised,
                                    !.n_plays = n_plays_, !.n_wins = n_wins_]
    /\ UNCHANGED <<pc, i, max_iterations, n_simulations, node, expanded_node,
                   n_wins, n_ties, iters, tested, played>>

NextApi ==
    \/ \E parent \in DOMAIN nodes : ApiExpand(parent)
    \/ \E scoring_func \in ScoringFuncs : ApiSelect(scoring_func)
    \/ \E n \in DOMAIN nodes, ns \in 0..MaxSims : ApiSimulate(n, ns)
    \/ \E n \in DOMAIN nodes, p \in 1..MaxSims, w \in 0..MaxSims, t \in 0..MaxSims :
          ApiBackpropagate(n, p, w, t)

SpecApi == InitApi /\ [][NextApi]_vars

(***************************************************************************)
(* select as test_select_level1 to 3 call it: on a tree the test has       *)
(* built and whose nodes it has given plays and wins                       *)
(***************************************************************************)
\* three and two empty cells: the tree of four nodes is the root with its
\* three children, or the root with its two children and one grandchild
SelectOpenings == {Open3, Open2}

InitSelect == InitFrom(SelectOpenings)

NextSelect ==
    \/ \E starting_node \in DOMAIN nodes, n_nodes \in 1..(MaxNodes - 1) :
          ApiMakeLevel(starting_node, n_nodes)
    \/ ApiUpdateNodes(FakePlays[1], FakePlays[2], {PreOrderIter(nodes, RootId)}, {}, FALSE)
    \/ \E n \in DOMAIN nodes, include_ancestors \in BOOLEAN :
          ApiUpdateNodes(BestPlays[1], BestPlays[2], {}, {<<nodes[n].name>>},
                         include_ancestors)
    \/ ApiUpdateNodes(FakePlays[1], FakePlays[2], {}, {}, FALSE)
    \/ ApiSelect("ucb1")

SpecSelect == InitSelect /\ [][NextSelect]_vars

(***************************************************************************)
(* The game played move by move by its caller, as src/tests/               *)
(* test_tictactoe.py does.  The engine built on the game holds the same    *)
(* object as the game of its root (mcts.py lines 23 and 25).               *)
(***************************************************************************)
\* five empty cells, player A to move
Open5 == << <<0, 0>>, <<1, 1>>, <<2, 2>>, <<0, 2>> >>

\* the games the caller starts from
GameOpenings == {Open5, Open3, OpenWon}

\* moves that name no cell of the board; (-1, -1) is that of test_play
OffBoard == {<<-1, -1>>, <<0, 3>>, <<3, 0>>}

InitGame == InitFrom(GameOpenings)

\* game.play(move=move)
GamePlay(move) ==
    /\ pc = "idle"
    /\ IF PlayRaises(played, move)
       THEN /\ played' = played
            /\ call' = [NoCall EXCEPT !.op = "play", !.play = move,
                                      !.raised = "ValueError"]
       ELSE /\ played' = Play(played, move)
            /\ call' = [NoCall EXCEPT !.op = "play", !.play = move]
    /\ nodes' = [nodes EXCEPT ![RootId].game = played']
    /\ UNCHANGED <<pc, i, max_iterations, n_simulations, node, expanded_node,
                   n_wins, n_ties, iters, tested>>

NextGame == \E move \in Cells(3) \cup OffBoard : GamePlay(move)

SpecGame == InitGame /\ [][NextGame]_vars

(***************************************************************************)
(* A game run to its end by random plays, "while game.legal_plays():       *)
(* game.play()", from a new game that keeps its last board only or from a  *)
(* game in progress that saves its history                                 *)
(***************************************************************************)
InitRun == InitFrom(GameOpenings) \/ InitWith({<<>>}, FALSE)

\* slip: the loop goes on while a cell is empty, won or not
GameRunWhileNotFull ==
    /\ pc = "idle"
    /\ \E move \in {m \in DOMAIN played.state : played.state[m] = 0} :
          /\ played' = Play(played, move)
          /\ call' = [NoCall EXCEPT !.op = "play", !.play = move]
    /\ nodes' = [nodes EXCEPT ![RootId].game = played']
    /\ UNCHANGED <<pc, i, max_iterations, n_simulations, node, expanded_node,
                   n_wins, n_ties, iters, tested>>

\* one turn of the loop: the test finds a legal play and play() is called
GameRun ==
    /\ pc = "idle"
    /\ LegalPlays(played) # <<>>
    /\ \E choice \in 0..(Len(LegalPlays(played)) - 1) :
          /\ played' = PlayRandom(played, choice)
          /\ call' = [NoCall EXCEPT !.op = "play",
                                    !.play = LegalPlays(played)[choice + 1]]
    /\ nodes' = [nodes EXCEPT ![RootId].game = played']
    /\ UNCHANGED <<pc, i, max_iterations, n_simulations, node, expanded_node,
                   n_wins, n_ties, iters, tested>>

NextRun == GameRun

SpecRun == InitRun /\ [][NextRun]_vars

(***************************************************************************)
(* TwoPlayersGame constructed on a given board, as src/tests/test_game.py  *)
(* does                                                                    *)
(***************************************************************************)
\* a board of the shape of the rows given, row by row
BoardOf(rows) ==
    [m \in (0..(Len(rows) - 1)) \X (0..(Len(rows[1]) - 1)) |-> rows[m[1] + 1][m[2] + 1]]

\* the boards of test_two_players_game
TestInitStates ==
    {BoardOf(<< <<0, 0, 0>>, <<0, 0, 0>>, <<0, 0, 0>> >>),
     BoardOf(<< <<0, 0, 0>>, <<0, 1, 0>>, <<0, 0, 0>> >>),
     BoardOf(<< <<0, 0, 0>>, <<0, 0, 1>>, <<-1, 0, 0>> >>),
     BoardOf(<< <<0, 0, 0>>, <<0, 0, 1>>, <<-1, 0, 1>> >>),
     BoardOf(<< <<0, 0, 0>>, <<0, 1, 1>>, <<-1, 1, 1>> >>),
     BoardOf(<< <<0, 0, 0>>, <<0, 0, 0>>, <<1, 2, 3>> >>),
     BoardOf(<< <<0, 0, 0>>, <<0, 0, 0>>, <<1, 1, 1>> >>)}

\* every 2x2 board of the two players' values, no value and a foreign value
SmallInitStates == [(0..1) \X (0..1) -> {-1, 0, 1, 2}]

InitTwoPlayers == InitFrom({<<>>})

\* TwoPlayersGame(init_state=init_state)
NewTwoPlayersGame(init_state) ==
    /\ ~tested
    /\ tested' = TRUE
    /\ LET r == TwoPlayersGameInit(init_state)
       IN call' = [NoCall EXCEPT !.op = "TwoPlayersGame", !.init_state = init_state,
                                 !.raised = r.raised,
                                 !.last_player = r.last_player,
                                 !.current_player = r.current_player]
    /\ UNCHANGED <<nodes, pc, i, max_iterations, n_simulations, node,
                   expanded_node, n_wins, n_ties, iters, played>>

NextTwoPlayers ==
    \E init_state \in TestInitStates \cup SmallInitStates : NewTwoPlayersGame(init_state)

SpecTwoPlayers == InitTwoPlayers /\ [][NextTwoPlayers]_vars

(***************************************************************************)
(* A Connect4 game constructed and played, and the set-up of               *)
(* src/test/test_connect4.py                                               *)
(***************************************************************************)
RECURSIVE MovesUpTo(_)
MovesUpTo(n) ==
    IF n = 0 THEN {<<>>}
    ELSE MovesUpTo(n - 1)
         \cup {Append(q, c) : q \in {m \in MovesUpTo(n - 1) : Len(m) = n - 1},
                                c \in 0..(Connect4Shape[2] - 1)}

InitConnect4 == InitFrom({<<>>})

\* a game of src/mcts/games/connect4.py is constructed, on no board or on
\* an array init_state of the dtype, and the moves are played
NewConnect4(init_state, dtype, save_history, moves) ==
    /\ ~tested
    /\ tested' = TRUE
    /\ LET r == Connect4Game(init_state, dtype, save_history, moves)
       IN call' = [NoCall EXCEPT
                      !.op = "Connect4", !.init_state = init_state,
                      !.dtype = dtype, !.moves = moves, !.raised = r.raised,
                      !.state = IF "state" \in DOMAIN r.self
                                THEN r.self.state ELSE <<>>,
                      !.winner = IF "winner_" \in DOMAIN r.self
                                 THEN r.self.winner_ ELSE NoPlayer]
    /\ UNCHANGED <<nodes, pc, i, max_iterations, n_simulations, node,
                   expanded_node, n_wins, n_ties, iters, played>>

\* the test module is loaded and setUp is run, Game standing for the class
\* named
Connect4SetUp(Game, moves) ==
    /\ ~tested
    /\ tested' = TRUE
    /\ LET r == TestConnect4SetUp(Game, moves)
       IN call' = [NoCall EXCEPT
                      !.op = "setUp", !.module = Game, !.moves = moves,
                      !.raised = r.raised,
                      !.state = IF "state" \in DOMAIN r.self
                                THEN r.self.state ELSE <<>>,
                      !.winner = IF "winner_" \in DOMAIN r.self
                                 THEN r.self.winner_ ELSE NoPlayer]
    /\ UNCHANGED <<nodes, pc, i, max_iterations, n_simulations, node,
                   expanded_node, n_wins, n_ties, iters, played>>

\* the boards handed to Connect4: none, or an empty 6x7 or 3x3 array of
\* int8 or of float64
NextConnect4 ==
    \/ \E save_history \in BOOLEAN, moves \in MovesUpTo(MaxMoves) :
          \/ NewConnect4(<<>>, "", save_history, moves)
          \/ \E dtype \in {"int8", "float64"} :
                \/ NewConnect4([m \in (0..(Connect4Shape[1] - 1))
                                       \X (0..(Connect4Shape[2] - 1)) |-> 0],
                               dtype, save_history, moves)
                \/ NewConnect4([m \in Cells(3) |-> 0], dtype, save_history, moves)
    \/ \E Game \in TestConnect4Games : Connect4SetUp(Game, TestConnect4Moves)

SpecConnect4 == InitConnect4 /\ [][NextConnect4]_vars

(***************************************************************************)
(* A Game of src/games/tictactoe.py played by random plays, and at some    *)
(* point a TwoPlayersGame or a TicTacToe of src/mcts/games constructed on  *)
(* a copy of its board                                                     *)
(***************************************************************************)
InitRoundTrip == InitRun

\* TicTacToe(init_state=init_state, save_history=save_history) of
\* src/mcts/games/tictactoe.py, as src/tests/test_tictactoe.py constructs its
\* games
NewTicTacToe(init_state, dtype, save_history) ==
    /\ ~tested
    /\ tested' = TRUE
    /\ LET r == TicTacToeInit(init_state, dtype, save_history)
       IN call' = [NoCall EXCEPT !.op = "TicTacToe", !.init_state = init_state,
                                 !.dtype = dtype, !.raised = r.raised]
    /\ UNCHANGED <<nodes, pc, i, max_iterations, n_simulations, node,
                   expanded_node, n_wins, n_ties, iters, played>>

NextRoundTrip ==
    \/ ~tested /\ GameRun
    \/ NewTwoPlayersGame(played.state)
    \/ \E dtype \in {"int8", "float64"}, save_history \in BOOLEAN :
          \/ NewTicTacToe(<<>>, dtype, save_history)
          \/ NewTicTacToe(played.state, dtype, save_history)

SpecRoundTrip == InitRoundTrip /\ [][NextRoundTrip]_vars

(***************************************************************************)
(* The scoring functions called on their own, as src/test/test_scoring.py  *)
(* and src/tests/test_scoring.py do                                        *)
(***************************************************************************)
ScoringModules == {"utils.scoring", "mcts.utils.scoring"}

\* (plays, wins, ties) with wins + ties <= plays
ScoringArgs ==
    {a \in (0..MaxArg) \X (0..MaxArg) \X (0..MaxArg) : a[2] + a[3] <= a[1]}

\* the (plays, wins, ties) of test_average_wins
TestAverageWinsArgs == {<<100, 33, 10>>}

\* the c_ of the calls: 0.5 and 1.0, in tenths
ScoringCs == {5, 10}

\* the (plays, wins, ties, total_plays, c_) of test_ucb1 and test_ucb1_1, of
\* test_ucb1_2 and of test_ucb1_0
TestUcb1Args == {<<50, 30, 20, 100, 5>>, <<4, 1, 0, 1000, 5>>, <<0, 0, 0, 1000, 10>>}

InitScoring == InitFrom({<<>>})

\* average_wins(plays, wins, ties) of either module
AverageWinsCall(module, plays, wins, ties) ==
    /\ ~tested
    /\ tested' = TRUE
    /\ call' = [NoCall EXCEPT
                  !.op = "average_wins", !.module = module,
                  !.n_plays = plays, !.n_wins = wins, !.n_ties = ties,
                  !.score = IF module = "utils.scoring"
                            THEN AverageWins(plays, wins, ties)
                            ELSE MctsAverageWins(plays, wins, ties)]
    /\ UNCHANGED <<nodes, pc, i, max_iterations, n_simulations, node,
                   expanded_node, n_wins, n_ties, iters, played>>

\* ucb1(plays, wins, ties, total_plays, c_) of either module
Ucb1Call(module, plays, wins, ties, total_plays, c_, rand) ==
    /\ ~tested
    /\ tested' = TRUE
    /\ call' = [NoCall EXCEPT
                  !.op = "ucb1", !.module = module,
                  !.n_plays = plays, !.n_wins = wins, !.n_ties = ties,
                  !.total_plays = total_plays, !.c_ = c_, !.rand = rand,
                  !.score = IF module = "utils.scoring"
                            THEN Ucb1(plays, wins, ties, total_plays, c_, rand)
                            ELSE MctsUcb1(plays, wins, ties, total_plays, c_, rand)]
    /\ UNCHANGED <<nodes, pc, i, max_iterations, n_simulations, node,
                   expanded_node, n_wins, n_ties, iters, played>>

NextScoring ==
    \/ \E module \in ScoringModules, a \in ScoringArgs \cup TestAverageWinsArgs :
          AverageWinsCall(module, a[1], a[2], a[3])
    \/ \E module \in ScoringModules, a \in ScoringArgs,
          total_plays \in 0..(2 * MaxArg), c_ \in ScoringCs, rand \in JitterVals :
          Ucb1Call(module, a[1], a[2], a[3], total_plays, c_, rand)
    \/ \E module \in ScoringModules, a \in TestUcb1Args, rand \in JitterVals :
          Ucb1Call(module, a[1], a[2], a[3], a[4], a[5], rand)

SpecScoring == InitScoring /\ [][NextScoring]_vars

(***************************************************************************)
(* Properties                                                              *)
(***************************************************************************)
Root == nodes[RootId]

NonRoot == DOMAIN nodes \ {RootId}

\* the nodes of depth 1
Level1 == Range(Root.children)

RECURSIVE SumOver(_, _)
SumOver(f, S) ==
    IF S = {} THEN 0
    ELSE LET x == CHOOSE y \in S : TRUE IN f[x] + SumOver(f, S \ {x})

PlaysOf(T) == [n \in DOMAIN T |-> T[n].n_plays]

WinsOf(T) == [n \in DOMAIN T |-> T[n].n_wins]

\* the node and its ancestors: the path backpropagate walks
PathOf(T, n) == {n} \cup Ancestors(T, n)

\* C1: in every node of the tree, at every point of any sequence of search
\* iterations from a fresh engine, n_wins + n_ties <= n_plays.
Thm_C1_WinsTiesWithinPlays ==
    \A n \in DOMAIN nodes :
        nodes[n].n_wins + nodes[n].n_ties <= nodes[n].n_plays

\* searches have credited ties to the root, plays to a node at depth 2 and
\* to some node wins and ties that add up to its plays
Wit_C1 ==
    /\ Root.n_ties > 0
    /\ \E n \in NonRoot : nodes[n].n_plays > 0 /\ Depth(nodes, n) = 2
    /\ \E m \in NonRoot :
          nodes[m].n_wins > 0 /\ nodes[m].n_wins + nodes[m].n_ties = nodes[m].n_plays

\* C2: every non-root node has been played no more often than its parent.
Thm_C2_PlaysAtMostParent ==
    \A n \in NonRoot : nodes[n].n_plays <= nodes[nodes[n].parent].n_plays

\* a node at depth 2 has been played, less often than its parent
Wit_C2 ==
    \E n \in NonRoot :
        /\ Depth(nodes, n) = 2
        /\ nodes[n].n_plays > 0
        /\ nodes[n].n_plays < nodes[nodes[n].parent].n_plays

\* C3: backpropagate credits every ancestor with n_wins when the ancestor's
\* player to move is the node's player to move, and with
\* n_plays - n_ties - n_wins otherwise.
Claim_C3_AlternatingWins ==
    [][call'.op = "backpropagate" =>
         \A a \in Ancestors(nodes, call'.node) :
            nodes'[a].n_wins - nodes[a].n_wins =
               IF nodes[a].game.current_player.value
                    = nodes[call'.node].game.current_player.value
               THEN call'.n_wins
               ELSE call'.n_plays - call'.n_ties - call'.n_wins]_vars

\* C4: when every backpropagation started at depth >= 1 (the root has a legal
\* play, so search never simulates the root itself), the root's plays are the
\* sum of the depth-1 plays and the root's non-won, non-tied plays are the
\* sum of the depth-1 wins.
Claim_C4_RootMirrorsLevel1 ==
    LegalPlays(Root.game) # <<>> =>
        /\ Root.n_plays = SumOver(PlaysOf(nodes), Level1)
        /\ Root.n_plays - Root.n_ties - Root.n_wins = SumOver(WinsOf(nodes), Level1)

\* C5: backpropagate from a node at depth d adds n_plays to the plays of the
\* node and of each of its d ancestors, so the plays summed over the tree
\* grow by (d + 1) * n_plays.
Thm_C5_PlaysAlongPath ==
    [][call'.op = "backpropagate" =>
         /\ \A m \in PathOf(nodes, call'.node) :
               nodes'[m].n_plays = nodes[m].n_plays + call'.n_plays
         /\ SumOver(PlaysOf(nodes'), DOMAIN nodes')
               = SumOver(PlaysOf(nodes), DOMAIN nodes)
                 + (Depth(nodes, call'.node) + 1) * call'.n_plays]_vars

\* backpropagate has run from a node at depth 3
Wit_C5 ==
    /\ call.op = "backpropagate"
    /\ Depth(nodes, call.node) = 3
    /\ call.n_plays > 0
    /\ Root.n_plays = call.n_plays

\* own-perspective win rate of a <= that of b, as wins / max(plays, 1)
RateAtMost(a, b) ==
    a.n_wins * Max(b.n_plays, 1) <= b.n_wins * Max(a.n_plays, 1)

\* C6: recommended_play returns the play of a depth-1 node whose win rate
\* wins/plays is the lowest of all depth-1 nodes.
Thm_C6_RecommendLowestRate ==
    (call.op = "recommended_play" /\ Root.children # <<>>) =>
        /\ call.raised = ""
        /\ \E c \in Level1 :
              /\ nodes[c].game.last_play = call.play
              /\ \A d \in Level1 : RateAtMost(nodes[c], nodes[d])

\* recommended_play chose a later child over a first child of higher rate
Wit_C6 ==
    /\ call.op = "recommended_play"
    /\ Len(Root.children) >= 2
    /\ call.play # nodes[Root.children[1]].game.last_play
    /\ \E d \in Level1 : ~RateAtMost(nodes[Root.children[1]], nodes[d])

\* C7: with no child under the root, recommended_play returns None and does
\* not raise.
Claim_C7_NoChildrenGivesNone ==
    (call.op = "recommended_play" /\ Root.children = <<>>) =>
        (call.raised = "" /\ call.play = NoPlay)

FullyExpanded(n) ==
    /\ nodes[n].children # <<>>
    /\ Len(LegalPlays(nodes[n].game)) = Len(nodes[n].children)

\* C8: select returns a node that has more legal plays than children or is
\* terminal, and every node above it on the path from the root is fully
\* expanded; on a fresh tree it returns the root.
Thm_C8_SelectStopsAtFirstOpenNode ==
    call.op = "select" =>
        /\ call.ret \in DOMAIN nodes
        /\ \/ Len(LegalPlays(nodes[call.ret].game)) > Len(nodes[call.ret].children)
           \/ LegalPlays(nodes[call.ret].game) = <<>>
        /\ \A a \in Ancestors(nodes, call.ret) : FullyExpanded(a)
        /\ (DOMAIN nodes = {RootId} => call.ret = RootId)

\* select went down through a fully expanded root with several children to
\* a node that has unexplored plays
Wit_C8 ==
    /\ call.op = "select"
    /\ Depth(nodes, call.ret) >= 1
    /\ Len(Root.children) >= 2
    /\ Len(LegalPlays(nodes[call.ret].game)) > Len(nodes[call.ret].children)

\* the ucb1 score select computes for child c with the draws of its last call
ScoreOf(c) ==
    Ucb1(nodes[c].n_plays, nodes[c].n_wins, nodes[c].n_ties,
         nodes[nodes[c].parent].n_plays, DefaultC, call.jit[c])

\* C9: at every node select descends through, the child it descends into has
\* the largest score ucb1(child plays, wins, ties, parent plays) of the
\* children, and that score is the one cached on the child.
Thm_C9_SelectDescendsToBestChild ==
    call.op = "select" =>
        \A c \in PathOf(nodes, call.ret) \ {RootId} :
            \A d \in Range(nodes[nodes[c].parent].children) :
                /\ ScoreOf(d) <= ScoreOf(c)
                /\ nodes[d].score = ScoreOf(d)

\* select passed over a first child of 1000 plays and 2 wins for a sibling of
\* 50 plays and 45 wins, whose score is strictly higher
Wit_C9 ==
    /\ call.op = "select"
    /\ call.ret # RootId
    /\ \E c \in PathOf(nodes, call.ret) \ {RootId} :
          LET first == nodes[nodes[c].parent].children[1]
          IN /\ c # first
             /\ ScoreOf(first) < ScoreOf(c)
             /\ nodes[first].n_plays = FakePlays[1]
             /\ nodes[c].n_plays = BestPlays[1]
             /\ nodes[nodes[c].parent].n_plays = FakePlays[1]

\* C10: expand on a node with a legal play no child represents adds exactly
\* one node: a new last child with zero statistics whose game is the
\* parent's game with one such play applied; it returns that child.
Thm_C10_ExpandAddsOneChild ==
    [][(/\ call'.op = "expand"
        /\ \E m \in Range(LegalPlays(nodes[call'.node].game)) :
              \A c \in Range(nodes[call'.node].children) :
                  nodes[c].game.last_play # m)
       =>
       LET parent == call'.node
           child == call'.ret
       IN /\ child \notin DOMAIN nodes
          /\ DOMAIN nodes' = DOMAIN nodes \cup {child}
          /\ Cardinality(DOMAIN nodes') = Cardinality(DOMAIN nodes) + 1
          /\ nodes'[parent].children = Append(nodes[parent].children, child)
          /\ nodes'[child].parent = parent
          /\ nodes'[child].children = <<>>
          /\ nodes'[child].n_plays = 0
          /\ nodes'[child].n_wins = 0
          /\ nodes'[child].n_ties = 0
          /\ \E m \in Range(LegalPlays(nodes[parent].game)) :
                /\ \A c \in Range(nodes[parent].children) :
                      nodes[c].game.last_play # m
                /\ nodes'[child].game.last_play = m
                /\ nodes'[child].game.state[m]
                      = nodes[parent].game.current_player.value
                /\ \A x \in DOMAIN nodes[parent].game.state :
                      x # m => nodes'[child].game.state[x]
                                  = nodes[parent].game.state[x]
          /\ \A n \in DOMAIN nodes \ {parent} : nodes'[n] = nodes[n]]_vars

\* expand has added a second or later child to a node
Wit_C10 ==
    /\ call.op = "expand"
    /\ call.ret # call.node
    /\ Len(nodes[call.node].children) >= 2
    /\ nodes[call.node].children[Len(nodes[call.node].children)] = call.ret

\* C11: expand on a node whose every legal play has a child (or that has no
\* legal play) returns that node, creates no node and changes no statistic;
\* the tree is left as it was, so that any further such call does the same.
Thm_C11_ExpandNothingLeft ==
    [][(/\ call'.op = "expand"
        /\ \A m \in Range(LegalPlays(nodes[call'.node].game)) :
              \E c \in Range(nodes[call'.node].children) :
                  nodes[c].game.last_play = m)
       =>
       /\ call'.ret = call'.node
       /\ nodes' = nodes
       /\ \A m \in Range(LegalPlays(nodes'[call'.node].game)) :
             \E c \in Range(nodes'[call'.node].children) :
                 nodes'[c].game.last_play = m]_vars

\* expand was called on a node that has a child for each of its legal plays
Wit_C11 ==
    /\ call.op = "expand"
    /\ call.ret = call.node
    /\ Len(nodes[call.node].children) >= 2
    /\ Len(nodes[call.node].children) = Len(LegalPlays(nodes[call.node].game))

\* C12: simulate(node, n) returns n_wins >= 0 and n_ties >= 0 with
\* n_wins + n_ties <= n, for every node and every n >= 0.
Thm_C12_SimulateCountsWithinN ==
    call.op = "simulate" =>
        /\ call.n_wins >= 0
        /\ call.n_ties >= 0
        /\ call.n_wins + call.n_ties <= call.n_plays

\* simulate returned both a win and a tie that add up to its n
Wit_C12 ==
    /\ call.op = "simulate"
    /\ call.n_wins > 0
    /\ call.n_ties > 0
    /\ call.n_wins + call.n_ties = call.n_plays

\* C13: simulate leaves the game of its node and the game of every other
\* node as they were: board, player to move, last play and history; the
\* rollout plays are made on deep copies only.
Thm_C13_SimulateKeepsGames ==
    [][call'.op = "simulate" =>
         /\ DOMAIN nodes' = DOMAIN nodes
         /\ \A n \in DOMAIN nodes :
               /\ nodes'[n].game.state = nodes[n].game.state
               /\ nodes'[n].game.current_player = nodes[n].game.current_player
               /\ nodes'[n].game.last_play = nodes[n].game.last_play
               /\ nodes'[n].game.history = nodes[n].game.history
               /\ nodes'[n].game = nodes[n].game]_vars

\* simulate has played rollouts of two plays or more from a node under the
\* root, and returned a win
Wit_C13 ==
    /\ call.op = "simulate"
    /\ call.node # RootId
    /\ Len(LegalPlays(nodes[call.node].game)) >= 2
    /\ call.n_plays >= 2
    /\ call.n_wins >= 1

\* C14: the budgets are tested between iterations only: an iteration that
\* has started makes its select, expand, simulate and backpropagate calls in
\* this order and is then counted; search returns from the loop test alone,
\* and then every node expand has created has had its rollouts backpropagated.
Thm_C14_IterationsRunWhole ==
    [][/\ (pc = "loop" /\ pc' # "loop") =>
             \/ pc' = "idle" /\ call'.op = "search_return" /\ nodes' = nodes
             \/ pc' = "expand" /\ call'.op = "select" /\ i < max_iterations
       /\ pc = "expand" => (pc' = "simulate" /\ call'.op = "expand")
       /\ pc = "simulate" => (pc' = "backpropagate" /\ call'.op = "simulate")
       /\ pc = "backpropagate" =>
             (pc' = "loop" /\ call'.op = "backpropagate" /\ i' = i + 1)
       /\ pc' = "idle" =>
             \A n \in DOMAIN nodes' \ {RootId} : nodes'[n].n_plays >= 1]_vars

\* search has returned on its time budget after whole iterations, with
\* iterations of its max_iterations left
Wit_C14 ==
    /\ call.op = "search_return"
    /\ call.n_plays >= 2
    /\ call.n_plays < call.max_iterations
    /\ Cardinality(DOMAIN nodes) = call.n_plays + 1

\* C15: no step removes a node or gives it another parent, a step adds at
\* most one node, and after k completed iterations from a fresh engine the
\* tree has at most k + 1 nodes.
Thm_C15_TreeOnlyGrows ==
    [][/\ \A n \in DOMAIN nodes :
             /\ n \in DOMAIN nodes'
             /\ nodes'[n].parent = nodes[n].parent
             /\ \A k \in 1..Len(nodes[n].children) :
                   /\ k <= Len(nodes'[n].children)
                   /\ nodes'[n].children[k] = nodes[n].children[k]
       /\ Cardinality(DOMAIN nodes') <= Cardinality(DOMAIN nodes) + 1
       /\ pc' \in {"idle", "loop"} => Cardinality(DOMAIN nodes') <= iters' + 1]_vars

\* three iterations have been completed and each has added a node, the last
\* one at depth 2
Wit_C15 ==
    /\ pc = "idle"
    /\ iters = 3
    /\ Cardinality(DOMAIN nodes) = 4
    /\ \E n \in NonRoot : Depth(nodes, n) = 2

\* C16: average_wins and ucb1 return 99 for plays = 0 and at most 1 + 1e-6
\* for plays > 0 and 0 <= wins <= plays, so that a never-played child
\* scores strictly higher than any played one.
Claim_C16_SentinelForUnplayed ==
    call.op \in {"average_wins", "ucb1"} =>
        /\ call.score # NaN
        /\ call.n_plays = 0 =>
              (call.score = 99 * ScoreScale /\ call.score > ScoreScale + 10)
        /\ (call.n_plays > 0 /\ 0 <= call.n_wins /\ call.n_wins <= call.n_plays) =>
              call.score <= ScoreScale + 10

\* C17: average_wins(plays, wins, ties) with plays > 0 is wins / plays
\* whatever the ties: 100 plays, 33 wins and 10 ties score 0.33.
Thm_C17_AverageIgnoresTies ==
    (call.op = "average_wins" /\ call.n_plays > 0) =>
        /\ call.score * call.n_plays <= call.n_wins * ScoreScale
        /\ call.n_wins * ScoreScale < (call.score + 1) * call.n_plays
        /\ (call.n_plays = 100 /\ call.n_wins = 33) => call.score = 3300000

\* utils.scoring.average_wins has scored 100 plays, 33 wins and 10 ties
Wit_C17 ==
    /\ call.op = "average_wins"
    /\ call.module = "utils.scoring"
    /\ call.n_plays = 100
    /\ call.n_wins = 33
    /\ call.n_ties = 10
    /\ call.score = 3300000

\* C18: a select call handed a scoring strategy that is none of the
\* supported ones raises ConfigurationError, before any node is scored and
\* with the tree as it was.
Claim_C18_UnknownStrategyRejected ==
    [][(call'.op = "select" /\ call'.scoring_func \notin {"ucb1", "thompson", "average_wins"})
       => (call'.raised = "ConfigurationError" /\ nodes' = nodes)]_vars

\* C19: play(move) with a move that is not a legal play of the game (a taken
\* cell, no cell of the board, or any move once the game is won) raises an
\* error and leaves board, player to move, last play and history as they were.
Thm_C19_IllegalPlayRejected ==
    [][(call'.op = "play" /\ call'.play \notin Range(LegalPlays(played)))
       =>
       /\ call'.raised = "ValueError"
       /\ played'.state = played.state
       /\ played'.current_player = played.current_player
       /\ played'.last_play = played.last_play
       /\ played'.history = played.history
       /\ played' = played]_vars

\* a play on an empty cell of a won game was rejected
Wit_C19 ==
    /\ call.op = "play"
    /\ call.raised = "ValueError"
    /\ Winner(played) # NoPlayer
    /\ played.last_play # NoPlay
    /\ call.play \in Cells(3)
    /\ played.state[call.play] = 0

\* C20: players compare by value: the player to move in the game of a node,
\* which is a copy of the games above it, is equal to the player of the same
\* value in the game of every ancestor, and unequal to the other player.
Claim_C20_PlayersEqualByValue ==
    \A n \in NonRoot :
        \A a \in Ancestors(nodes, n) :
            \A q \in Range(nodes[a].game.players) \cup {nodes[a].game.current_player} :
                PlayerEq(nodes[n].game.current_player, q)
                    <=> (nodes[n].game.current_player.value = q.value)

\* the rows, the columns and the two diagonals of a board, as sets of cells
Lines(board_size) ==
    LET idx == 0..(board_size - 1)
    IN {{<<r, c>> : c \in idx} : r \in idx}
       \cup {{<<r, c>> : r \in idx} : c \in idx}
       \cup {{<<k, k>> : k \in idx}, {<<k, board_size - 1 - k>> : k \in idx}}

\* some line of the board holds value v in each of its cells
HasLine(state, v) == \E line \in Lines(3) : \A m \in line : state[m] = v

EmptyCells(state) == {m \in Cells(3) : state[m] = 0}

Pieces(state) == Cardinality(Cells(3) \ EmptyCells(state))

\* C21: in every state reached by legal plays, legal_plays() is the set of
\* empty cells when no player has a complete line, and empty when a player
\* has one or the board is full: it is empty exactly in the terminal states.
Thm_C21_LegalPlaysAreEmptyCells ==
    LET won == HasLine(played.state, 1) \/ HasLine(played.state, -1)
        legal_plays == LegalPlays(played)
    IN /\ Range(legal_plays) = IF won THEN {} ELSE EmptyCells(played.state)
       /\ Len(legal_plays) = Cardinality(Range(legal_plays))
       /\ (legal_plays = <<>>) <=> (won \/ EmptyCells(played.state) = {})

\* the second player has completed a line on a board that has empty cells
Wit_C21 ==
    /\ call.op = "play"
    /\ HasLine(played.state, -1)
    /\ EmptyCells(played.state) # {}
    /\ LegalPlays(played) = <<>>

\* C22: player 1 (value 1) moves first and the turns alternate: a play writes
\* the value of the player to move into the chosen cell and into no other,
\* and passes the turn to the other player, so that the k-th move of a game
\* is made by value 1 for odd k and by value -1 for even k.
Thm_C22_TurnsAlternate ==
    [][(call'.op = "play" /\ call'.raised = "")
       =>
       LET m == call'.play
           k == Pieces(played'.state)
       IN /\ played.state[m] = 0
          /\ played'.state[m] = played.current_player.value
          /\ \A x \in Cells(3) \ {m} : played'.state[x] = played.state[x]
          /\ k = Pieces(played.state) + 1
          /\ played'.state[m] = IF k % 2 = 1 THEN 1 ELSE -1
          /\ played'.current_player.value = -played.current_player.value
          /\ played'.current_player \in Range(played'.players)]_vars

\* the second and the third move of a new game have been made
Wit_C22 ==
    /\ call.op = "play"
    /\ ~played.save_history
    /\ Pieces(played.state) = 3
    /\ played.state[call.play] = 1
    /\ played.current_player.value = -1

\* C23: after any sequence of legal plays, winner() is player p exactly when
\* a row, a column or one of the two diagonals holds p's value in each of its
\* cells, and None otherwise, a full board without such a line included.
Thm_C23_WinnerHasLine ==
    /\ \A k \in 1..2 :
          (Winner(played) = played.players[k])
              <=> HasLine(played.state, played.players[k].value)
    /\ (Winner(played) = NoPlayer)
          <=> (~HasLine(played.state, 1) /\ ~HasLine(played.state, -1))

\* the first player has completed the anti-diagonal with the last cell of
\* the board
Wit_C23 ==
    /\ call.op = "play"
    /\ EmptyCells(played.state) = {}
    /\ \A k \in 0..2 : played.state[<<2 - k, k>>] = 1
    /\ Winner(played) = played.players[1]

\* the board is full and no line is complete: a tie
Wit_C23_Tie ==
    /\ call.op = "play"
    /\ EmptyCells(played.state) = {}
    /\ Winner(played) = NoPlayer

\* the history of a game that saves it: one board more than plays made, each
\* the board after as many plays as boards come before it
HistoryTellsThePlays(game) ==
    /\ Len(game.history) = Pieces(game.state) + 1
    /\ game.history[1] = [m \in Cells(3) |-> 0]
    /\ game.history[Len(game.history)] = game.state
    /\ \A k \in 1..Len(game.history) : Pieces(game.history[k]) = k - 1
    /\ \A k \in 1..(Len(game.history) - 1) :
          \A m \in Cells(3) :
              game.history[k][m] # 0 => game.history[k + 1][m] = game.history[k][m]

\* C24: with save_history on, after k plays the history holds k + 1 boards,
\* history[i] is the board as it was after i plays (history[0] the initial
\* board), and a play alters no entry recorded before it.
Thm_C24_HistoryKeepsBoards ==
    [][(call'.op = "play" /\ call'.raised = "" /\ played.save_history)
       =>
       /\ HistoryTellsThePlays(played)
       /\ HistoryTellsThePlays(played')
       /\ Len(played'.history) = Len(played.history) + 1
       /\ \A k \in 1..Len(played.history) : played'.history[k] = played.history[k]
       /\ played'.history[Len(played'.history)] = played'.state]_vars

\* a game that saves its history has been played to a full board
Wit_C24 ==
    /\ call.op = "play"
    /\ played.save_history
    /\ Len(played.history) = 10
    /\ played.history[10] = played.state
    /\ played.history[9] # played.state

\* C25: TwoPlayersGame on an initial board infers the turn from the piece
\* counts: no piece gives last_player None and player 1 to move; equal
\* counts give last_player player 2 and player 1 to move; one piece more for
\* player 1 gives last_player player 1 and player 2 to move; every other
\* board raises ValueError.
Thm_C25_TurnFromPieceCounts ==
    call.op = "TwoPlayersGame" =>
        LET state == call.init_state
            c1 == CountOf(state, 1)
            c2 == CountOf(state, -1)
            foreign == \E m \in DOMAIN state : state[m] \notin {-1, 0, 1}
        IN IF ~foreign /\ c1 = 0 /\ c2 = 0
           THEN /\ call.raised = ""
                /\ call.last_player = NoPlayer
                /\ call.current_player.value = 1
           ELSE IF ~foreign /\ c1 = c2
           THEN /\ call.raised = ""
                /\ call.last_player.value = -1
                /\ call.current_player.value = 1
           ELSE IF ~foreign /\ c1 = c2 + 1
           THEN /\ call.raised = ""
                /\ call.last_player.value = 1
                /\ call.current_player.value = -1
           ELSE call.raised = "ValueError"

\* a game was constructed on a board where player 1 has two pieces and
\* player 2 one
Wit_C25 ==
    /\ call.op = "TwoPlayersGame"
    /\ call.raised = ""
    /\ CountOf(call.init_state, 1) = 2
    /\ CountOf(call.init_state, -1) = 1
    /\ call.last_player.value = 1
    /\ call.current_player.value = -1

\* Connect4 as the claims describe it: the board after dropping a piece of
\* value v into column c, and the board after a sequence of alternating drops
Connect4Cells == (0..(Connect4Shape[1] - 1)) \X (0..(Connect4Shape[2] - 1))
PiecesIn(state, c) == Cardinality({r \in 0..(Connect4Shape[1] - 1) : state[<<r, c>>] # 0})
Dropped(state, c, v) ==
    [m \in Connect4Cells |->
        IF m = <<Connect4Shape[1] - PiecesIn(state, c) - 1, c>> THEN v ELSE state[m]]
RECURSIVE DroppedAll(_, _, _)
DroppedAll(state, moves, v) ==
    IF moves = <<>> THEN state
    ELSE DroppedAll(Dropped(state, Head(moves), v), Tail(moves), -v)
FourInLine(state, v) ==
    \E m \in Connect4Cells, d \in {<<0, 1>>, <<1, 0>>, <<1, 1>>, <<1, -1>>} :
        \A k \in 0..3 :
            /\ <<m[1] + k * d[1], m[2] + k * d[2]>> \in Connect4Cells
            /\ state[<<m[1] + k * d[1], m[2] + k * d[2]>>] = v

\* C26: in Connect4 a play makes the mover the winner exactly when the mover
\* then has four own pieces in a line (column, row or diagonal); otherwise
\* winner() stays None.  Here: after the plays made on a game constructed on
\* no board or on an empty 6x7 int8 board no exception was raised, and the
\* game has a winner exactly when the board has such a line.
Claim_C26_FourInLineWins ==
    (/\ call.op = "Connect4"
     /\ call.moves # <<>>
     /\ \/ call.init_state = <<>>
        \/ call.init_state = [m \in Connect4Cells |-> 0] /\ call.dtype = "int8") =>
        LET state == DroppedAll([m \in Connect4Cells |-> 0], call.moves, 1)
        IN /\ call.raised = ""
           /\ \A v \in {1, -1} :
                  (call.winner # NoPlayer /\ call.winner.value = v) <=> FourInLine(state, v)

\* C27: in Connect4 a play on a legal column puts the mover's value in the
\* lowest empty cell of the column and changes no other cell; a column is
\* legal exactly when it has an empty cell and the game has no winner.
\* Here: the plays made on a game constructed on no board or on an empty
\* 6x7 int8 board, all on legal columns, leave the board with exactly the
\* pieces dropped.
Claim_C27_PieceDropsToLowestCell ==
    (/\ call.op = "Connect4"
     /\ call.moves # <<>>
     /\ \/ call.init_state = <<>>
        \/ call.init_state = [m \in Connect4Cells |-> 0] /\ call.dtype = "int8") =>
        /\ call.raised # "ValueError"
        /\ call.state = DroppedAll([m \in Connect4Cells |-> 0], call.moves, 1)

\* C28: the current player of every non-root node's game is the opponent of
\* the current player of its parent's game, so every depth-1 node's current
\* player is the opponent of the root's mover, also when the node's game is
\* already won.
Thm_C28_TurnAlternatesByLevel ==
    \A n \in NonRoot :
        LET game == nodes[n].game
            parent_game == nodes[nodes[n].parent].game
        IN /\ game.current_player.value # parent_game.current_player.value
           /\ \E k \in 1..Len(game.players) :
                  game.players[k].value = game.current_player.value
           /\ \E k \in 1..Len(parent_game.players) :
                  parent_game.players[k].value = game.current_player.value
           /\ game.state[game.last_play] = parent_game.current_player.value

\* a depth-1 node whose game is won by the root's mover, who is not the
\* node's current player, beside a depth-1 node whose game goes on
Wit_C28 ==
    /\ \E n \in Level1 :
           /\ Winner(nodes[n].game) # NoPlayer
           /\ Winner(nodes[n].game).value = Root.game.current_player.value
           /\ nodes[n].game.current_player.value = -Root.game.current_player.value
    /\ \E n \in Level1 : LegalPlays(nodes[n].game) # <<>>

\* C29: the children of a node stand for pairwise distinct moves, each a
\* legal move of the node's game; a node never has more children than its
\* game has legal moves, and a terminal node has none.
Thm_C29_ChildrenAreDistinctLegalMoves ==
    \A n \in DOMAIN nodes :
        LET children == nodes[n].children
            legal_plays == LegalPlays(nodes[n].game)
        IN /\ \A a, b \in 1..Len(children) :
                  a # b => nodes[children[a]].game.last_play
                           # nodes[children[b]].game.last_play
           /\ \A a \in 1..Len(children) :
                  nodes[children[a]].game.last_play \in Range(legal_plays)
           /\ Len(children) <= Len(legal_plays)
           /\ legal_plays = <<>> => children = <<>>

\* a node with three children, one of them terminal
Wit_C29 ==
    \E n \in DOMAIN nodes :
        /\ Len(nodes[n].children) = 3
        /\ \E c \in Range(nodes[n].children) : LegalPlays(nodes[c].game) = <<>>

\* C30: node names are unique and tell the path: the root is "0" and the
\* i-th child made under a parent (from 0, in the order of the expansions)
\* is named parent.name + "_" + i.
Thm_C30_NamesTellThePath ==
    /\ Root.name = "0"
    /\ \A n \in DOMAIN nodes :
           \A k \in 1..Len(nodes[n].children) :
               nodes[nodes[n].children[k]].name
                   = nodes[n].name \o "_" \o ToString(k - 1)
    /\ \A a, b \in DOMAIN nodes : a # b => nodes[a].name # nodes[b].name

\* two children of the root and a grandchild under the second one
Wit_C30 ==
    /\ Cardinality(DOMAIN nodes) = 4
    /\ \E n \in NonRoot : nodes[n].name = "0_1_0"
    /\ \E n \in NonRoot : nodes[n].name = "0_0"

\* C31: every rollout ends: each random play fills exactly one empty cell,
\* so from any state the loop "while legal_plays(): play()" makes at most as
\* many plays as there are empty cells (9 from the empty board); the loop
\* goes on only while a cell is empty, each of its turns can be made, and it
\* has stopped when no cell is empty.
Thm_C31_RolloutEnds ==
    /\ [][call'.op = "play"
          => /\ Cardinality(EmptyCells(played'.state))
                   = Cardinality(EmptyCells(played.state)) - 1
             /\ EmptyCells(played'.state) \subseteq EmptyCells(played.state)]_vars
    /\ [](LegalPlays(played) # <<>>
            => /\ EmptyCells(played.state) # {}
               /\ ENABLED GameRun)
    /\ [](EmptyCells(played.state) = {} => LegalPlays(played) = <<>>)
    /\ [](Pieces(played.state) + Cardinality(EmptyCells(played.state)) = 9)

\* a game played from the empty board has ended with the ninth play
Wit_C31 ==
    /\ call.op = "play"
    /\ ~played.save_history
    /\ Pieces(played.state) = 9
    /\ LegalPlays(played) = <<>>

\* C32: a search call completes at most max_iterations iterations and each
\* completed iteration credits the root exactly once: backpropagate adds
\* n_simulations to root.n_plays and no other step changes it, so that after
\* k completed iterations of a search on a fresh engine root.n_plays is
\* k * n_simulations.
Thm_C32_RootCountsIterations ==
    [][/\ nodes'[RootId].n_plays
             = Root.n_plays + (IF call'.op = "backpropagate" THEN n_simulations ELSE 0)
       /\ i' <= max_iterations'
       /\ (pc' # "idle" /\ iters' = i')
             => nodes'[RootId].n_plays = i' * n_simulations'
       /\ (call'.op = "search_return" /\ iters = call'.n_plays)
             => /\ call'.n_plays <= call'.max_iterations
                /\ nodes'[RootId].n_plays = call'.n_plays * n_simulations]_vars

\* the first search of an engine has returned after three iterations of two
\* simulations each
Wit_C32 ==
    /\ call.op = "search_return"
    /\ call.n_plays = 3
    /\ iters = 3
    /\ Root.n_plays = 6

\* the plays of the children of node n, summed
ChildrenPlays(n) == SumOver(PlaysOf(nodes), Range(nodes[n].children))

\* C33: at every iteration boundary of the first search of a fresh engine on
\* a game that is not over, run with n_simulations >= 1: root.n_plays is the
\* sum of the n_plays of its children, and every non-root node with a legal
\* play has n_plays = n_simulations + the sum of the n_plays of its children,
\* so every non-root node has n_plays >= n_simulations > 0.
Thm_C33_PlaysSumOverChildren ==
    (pc = "loop" /\ iters = i /\ n_simulations >= 1 /\ LegalPlays(Root.game) # <<>>)
    => /\ Root.n_plays = ChildrenPlays(RootId)
       /\ \A n \in NonRoot :
              /\ LegalPlays(nodes[n].game) # <<>>
                    => nodes[n].n_plays = n_simulations + ChildrenPlays(n)
              /\ nodes[n].n_plays >= n_simulations

\* three iterations of two simulations each: a child of the root has a legal
\* play and a child of its own, and has been played four times
Wit_C33 ==
    /\ pc = "loop" /\ iters = i /\ i = 3 /\ n_simulations = 2
    /\ LegalPlays(Root.game) # <<>>
    /\ \E n \in NonRoot :
           /\ nodes[n].children # <<>>
           /\ LegalPlays(nodes[n].game) # <<>>
           /\ nodes[n].n_plays = 4

\* C34: within search, expand returns the selected node without creating a
\* child only when that node is terminal; whenever select has returned a
\* node with a legal play, the expand that follows creates a new child of it.
Thm_C34_ExpandIdleOnlyAtTerminal ==
    [][call'.op = "expand"
       => LET legal_plays == LegalPlays(nodes[node].game)
          IN /\ call'.node = node
             /\ (call'.ret = node) <=> (legal_plays = <<>>)
             /\ legal_plays = <<>> => nodes' = nodes
             /\ legal_plays # <<>>
                   => /\ call'.ret \notin DOMAIN nodes
                      /\ DOMAIN nodes' = DOMAIN nodes \cup {call'.ret}
                      /\ nodes'[call'.ret].parent = node
                      /\ Len(nodes'[node].children) = Len(nodes[node].children) + 1]_vars

\* select has come back to a terminal node below the root and expand has
\* returned it as it was
Wit_C34 ==
    /\ call.op = "expand"
    /\ call.node # RootId
    /\ call.ret = call.node
    /\ nodes[call.node].n_plays > 0
    /\ LegalPlays(nodes[call.node].game) = <<>>

\* C35: backpropagate(node, ...) changes n_plays, n_wins and n_ties of the
\* node and of its ancestors only: every node off that path, the shape of
\* the tree (the nodes, their parents, children and names), the cached
\* scores and every game are left as they were.
Thm_C35_BackpropagateTouchesPathOnly ==
    [][call'.op = "backpropagate"
       => /\ DOMAIN nodes' = DOMAIN nodes
          /\ \A m \in DOMAIN nodes :
                 /\ [nodes'[m] EXCEPT !.n_plays = nodes[m].n_plays,
                                      !.n_wins = nodes[m].n_wins,
                                      !.n_ties = nodes[m].n_ties] = nodes[m]
                 /\ m \notin PathOf(nodes, call'.node) => nodes'[m] = nodes[m]
          /\ played' = played]_vars

\* backpropagate has run with a win from a node that has a sibling and a
\* child, both off the path
Wit_C35 ==
    /\ call.op = "backpropagate"
    /\ call.n_wins > 0
    /\ call.node # RootId
    /\ nodes[call.node].children # <<>>
    /\ Len(nodes[nodes[call.node].parent].children) >= 2

\* C36: select and recommended_play do not change the tree: no node is added
\* or removed and no node's n_plays, n_wins, n_ties or game changes; the only
\* field select writes is the cached score of the children it evaluates (the
\* children of the nodes it descends through), and recommended_play writes
\* nothing.
Thm_C36_SelectAndRecommendLeaveTree ==
    [][/\ call'.op = "recommended_play" => (nodes' = nodes /\ played' = played)
       /\ call'.op = "select"
             => /\ DOMAIN nodes' = DOMAIN nodes
                /\ played' = played
                /\ \A m \in DOMAIN nodes :
                       /\ [nodes'[m] EXCEPT !.score = nodes[m].score] = nodes[m]
                       /\ nodes'[m].score # nodes[m].score
                             => nodes[m].parent \in Ancestors(nodes, call'.ret)]_vars

\* select has descended to a child of the root and has scored that child
\* and a sibling of it on its way
Wit_C36 ==
    /\ call.op = "select"
    /\ Depth(nodes, call.ret) = 1
    /\ nodes[call.ret].score > 0
    /\ \E m \in Level1 : nodes[m].score > 0 /\ m # call.ret

\* C37: turn inference round-trips with play: on every board reached by
\* legal alternating plays, a TwoPlayersGame constructed from the board
\* raises no error and has the current player of the game that was played:
\* player 1 has as many pieces as player 2 or one more, and is to move
\* exactly when the counts are equal.
Thm_C37_TurnInferenceRoundTrips ==
    call.op = "TwoPlayersGame" =>
        LET c1 == CountOf(played.state, 1)
            c2 == CountOf(played.state, -1)
        IN /\ call.init_state = played.state
           /\ call.raised = ""
           /\ call.current_player.value = played.current_player.value
           /\ c1 - c2 \in {0, 1}
           /\ (call.current_player.value = 1) <=> (c1 = c2)
           /\ (call.last_player = NoPlayer) <=> (c1 = 0)
           /\ c1 > 0 => call.last_player.value = -played.current_player.value

\* the turn has been inferred from a board that player 1 has won with the
\* fifth play
Wit_C37 ==
    /\ call.op = "TwoPlayersGame"
    /\ Pieces(played.state) = 5
    /\ HasLine(played.state, 1)
    /\ call.current_player.value = -1

\* C38: a node's game that has a winner was won by the player who has just
\* moved, never by the node's current player, so simulate(node, n) returns
\* (0 wins, 0 ties) for such a node, whatever n; for a node whose board is
\* full without a winner it returns (0 wins, n ties).
Thm_C38_SimulateOnFinishedGames ==
    /\ \A m \in DOMAIN nodes :
           Winner(nodes[m].game) # NoPlayer
               => /\ Winner(nodes[m].game).value # nodes[m].game.current_player.value
                  /\ Winner(nodes[m].game).value
                        = nodes[m].game.state[nodes[m].game.last_play]
    /\ call.op = "simulate"
          => LET game == nodes[call.node].game
             IN /\ Winner(game) # NoPlayer
                      => (call.n_wins = 0 /\ call.n_ties = 0)
                /\ (Winner(game) = NoPlayer /\ EmptyCells(game.state) = {})
                      => (call.n_wins = 0 /\ call.n_ties = call.n_plays)

\* simulate has run twice over from a won node below the root
Wit_C38 ==
    /\ call.op = "simulate"
    /\ call.n_plays = 2
    /\ call.node # RootId
    /\ Winner(nodes[call.node].game) # NoPlayer

\* simulate has run twice over from a node with a full board and no winner
Wit_C38_Tie ==
    /\ call.op = "simulate"
    /\ call.n_plays = 2
    /\ Winner(nodes[call.node].game) = NoPlayer
    /\ EmptyCells(nodes[call.node].game.state) = {}

\* winner() with the players checked in the other order
WinnerLastFirst(game) ==
    LET wins(k) == (game.board_size * game.players[k].value) \in Range(game.sums)
    IN IF wins(2) THEN game.players[2]
       ELSE IF wins(1) THEN game.players[1]
       ELSE NoPlayer

\* C39: in every state reached by legal plays from the empty board at most
\* one player has a complete row, column or diagonal, so winner() does not
\* depend on the order in which the players are checked; once there is a
\* winner no play is legal, and the winner never changes.
Thm_C39_AtMostOneWinner ==
    /\ [](~(HasLine(played.state, 1) /\ HasLine(played.state, -1)))
    /\ [](Winner(played) = WinnerLastFirst(played))
    /\ [](Winner(played) # NoPlayer => (LegalPlays(played) = <<>> /\ ~ENABLED GameRun))
    /\ [][Winner(played) # NoPlayer => Winner(played') = Winner(played)]_vars

\* player 2 has won a game played from the empty board, on a board with
\* empty cells left
Wit_C39 ==
    /\ call.op = "play"
    /\ ~played.save_history
    /\ Winner(played) = played.players[2]
    /\ HasLine(played.state, -1)
    /\ Pieces(played.state) = 6

====
